---- MODULE Spec2Model ----
(***************************************************************************)
(* A model of twitchio/models.py: the payload-to-record constructors, the  *)
(* outbound serialisers and the extension builder.                         *)
(*                                                                         *)
(* Python values are tagged records:                                       *)
(*   [t |-> "null"]                  None                                  *)
(*   [t |-> "bool", b |-> b]         bool                                  *)
(*   [t |-> "int",  n |-> n]         int                                   *)
(*   [t |-> "str",  s |-> "text"]    str holding free text                 *)
(*   [t |-> "cstr", q |-> <<..>>]    str held piecewise (digits, date,     *)
(*                                   ".", "Z", ...) where code looks inside*)
(*   [t |-> "dict", d |-> f]         dict (payload side)                   *)
(*   [t |-> "odict", keys, m]        dict whose insertion order is tracked *)
(*   [t |-> "list", l |-> <<..>>]    list                                  *)
(*   [t |-> "ref",  r |-> n]         a reference to the container heap[n]  *)
(*   [t |-> "datetime", ...]         datetime.datetime                     *)
(*   [t |-> "float", whole, frac]    float                                 *)
(*   [t |-> "enum", e |-> "name"]    a member of an enumeration            *)
(*   [t |-> "obj", cls, attrs]       an instance with the slots set so far *)
(*   [t |-> "exc", type, arg]        a raised exception                    *)
(***************************************************************************)
EXTENDS Integers, Sequences, FiniteSets, TLC

VARIABLES
    pyver,      \* the interpreter the build runs on: "py310" or "py311"
    heap,       \* the mutable containers of the payload last handed in
    result,     \* the last construction: its input and its outcome
    out,        \* the value returned by the last call made on result
    call,       \* that call: the method and its arguments
    requests    \* the HTTP collaborator: how many requests it was handed, and the last

vars == <<pyver, heap, result, out, call, requests>>

----------------------------------------------------------------------------
(* Bounds *)

MaxList == 2        \* longest list placed in a payload
MaxAdds == 3        \* most records appended to an extension builder
MaxRequests == 1    \* most requests counted

----------------------------------------------------------------------------
(* Values *)

Null == [t |-> "null"]
B(b) == [t |-> "bool", b |-> b]
I(n) == [t |-> "int", n |-> n]
S(s) == [t |-> "str", s |-> s]
CS(q) == [t |-> "cstr", q |-> q]
D(f) == [t |-> "dict", d |-> f]
L(q) == [t |-> "list", l |-> q]
Ref(n) == [t |-> "ref", r |-> n]
Exc(type, arg) == [t |-> "exc", type |-> type, arg |-> arg]
Obj(cls, attrs) == [t |-> "obj", cls |-> cls, attrs |-> attrs]
NoAttrs == [k \in {} |-> Null]
NoArgs == [k \in {} |-> Null]

IsExc(v) == v.t = "exc"

Deref(h, v) == IF v.t = "ref" THEN h[v.r] ELSE v

Digits == <<"0", "1", "2", "3", "4", "5", "6", "7", "8", "9">>

DigitVal(c) == (CHOOSE i \in 1..10 : Digits[i] = c) - 1

IsDigit(c) == \E i \in 1..10 : Digits[i] = c

----------------------------------------------------------------------------
(* Python primitives used by the constructors *)

\* bool(v): the truth value Python gives v in "x if x else None" and "a or b"
Truthy(h, v) ==
    LET c == Deref(h, v) IN
    CASE c.t = "null" -> FALSE
      [] c.t = "bool" -> c.b
      [] c.t = "int" -> c.n # 0
      [] c.t = "str" -> c.s # ""
      [] c.t = "cstr" -> Len(c.q) > 0
      [] c.t = "list" -> Len(c.l) > 0
      [] c.t = "dict" -> DOMAIN c.d # {}
      [] OTHER -> TRUE

\* d[key]
Lookup(h, d, key) ==
    LET c == Deref(h, d) IN
    IF c.t # "dict" THEN Exc("TypeError", key)
    ELSE IF key \notin DOMAIN c.d THEN Exc("KeyError", key)
    ELSE c.d[key]

\* d[p1][p2]...[pn]
RECURSIVE Item(_, _, _)
Item(h, d, path) ==
    IF Len(path) = 0 THEN d
    ELSE LET x == Lookup(h, d, Head(path)) IN
         IF IsExc(x) THEN x ELSE Item(h, x, Tail(path))

\* d.get(key)
Get(h, d, key) ==
    LET c == Deref(h, d) IN
    IF c.t # "dict" THEN Exc("AttributeError", "get")
    ELSE IF key \notin DOMAIN c.d THEN Null
    ELSE c.d[key]

\* the number a sequence of decimal digits denotes
RECURSIVE DigitsToNat(_)
DigitsToNat(q) ==
    IF Len(q) = 0 THEN 0
    ELSE 10 * DigitsToNat(SubSeq(q, 1, Len(q) - 1)) + DigitVal(q[Len(q)])

AllDigits(q) == Len(q) > 0 /\ \A i \in 1..Len(q) : IsDigit(q[i])

\* int(v) with 0 in place of what cannot be converted
PyInt_lenient(v) ==
    CASE v.t = "int" -> v
      [] v.t = "bool" -> I(IF v.b THEN 1 ELSE 0)
      [] v.t = "cstr" -> IF AllDigits(v.q) THEN I(DigitsToNat(v.q)) ELSE I(0)
      [] OTHER -> I(0)

\* int(v)
PyInt(v) ==
    CASE v.t = "int" -> v
      [] v.t = "bool" -> I(IF v.b THEN 1 ELSE 0)
      [] v.t = "cstr" -> IF AllDigits(v.q) THEN I(DigitsToNat(v.q))
                         ELSE Exc("ValueError", "int")
      [] v.t = "str" -> Exc("ValueError", "int")
      [] OTHER -> Exc("TypeError", "int")

\* position of the first piece equal to c, or 0
FirstAt(q, c) ==
    IF \E i \in 1..Len(q) : q[i] = c
    THEN CHOOSE i \in 1..Len(q) : q[i] = c /\ \A j \in 1..(i - 1) : q[j] # c
    ELSE 0

\* float(v)
PyFloat(v) ==
    CASE v.t = "int" -> [t |-> "float", whole |-> v.n, frac |-> <<"0">>]
      [] v.t = "cstr" ->
            LET dot == FirstAt(v.q, ".")
                w == IF dot = 0 THEN v.q ELSE SubSeq(v.q, 1, dot - 1)
                f == IF dot = 0 THEN <<"0">> ELSE SubSeq(v.q, dot + 1, Len(v.q))
            IN IF AllDigits(w) /\ AllDigits(f)
               THEN [t |-> "float", whole |-> DigitsToNat(w), frac |-> f]
               ELSE Exc("ValueError", "float")
      [] v.t = "str" -> Exc("ValueError", "float")
      [] OTHER -> Exc("TypeError", "float")

\* round(n / d) for ints n and d > 0: nearest integer, ties to the even one
PyRoundDiv(n, d) ==
    LET q == n \div d
        r == n % d
    IN IF 2 * r < d THEN q
       ELSE IF 2 * r > d THEN q + 1
       ELSE IF q % 2 = 0 THEN q ELSE q + 1

\* v.split(sep)[0]
SplitFirst(v, sep) ==
    CASE v.t = "cstr" ->
            LET at == FirstAt(v.q, sep) IN
            IF at = 0 THEN v ELSE CS(SubSeq(v.q, 1, at - 1))
      [] v.t = "str" -> v
      [] OTHER -> Exc("AttributeError", "split")

Dates == {"2021-05-01T12:00:00", "2021-06-02T08:30:00"}

Fractions == {"123", "123456"}

DateTime(at, us, tz) == [t |-> "datetime", at |-> at, us |-> us, tz |-> tz]

\* the shapes of an ISO-8601 string the model distinguishes
IsoShape(q) ==
    CASE Len(q) = 1 /\ q[1] \in Dates -> "plain"
      [] Len(q) = 2 /\ q[1] \in Dates /\ q[2] = "Z" -> "z"
      [] Len(q) = 3 /\ q[1] \in Dates /\ q[2] = "." /\ q[3] \in Fractions -> "frac"
      [] Len(q) = 4 /\ q[1] \in Dates /\ q[2] = "." /\ q[3] \in Fractions
            /\ q[4] = "Z" -> "fracz"
      [] OTHER -> "bad"

\* datetime.datetime.fromisoformat(v): before Python 3.11 a trailing "Z" is
\* rejected; from 3.11 on it is read as UTC
fromisoformat(py, v) ==
    CASE v.t = "cstr" ->
            LET sh == IsoShape(v.q) IN
            CASE sh = "plain" -> DateTime(v.q[1], "0", "naive")
              [] sh = "frac" -> DateTime(v.q[1], v.q[3], "naive")
              [] sh = "z" -> IF py = "py311" THEN DateTime(v.q[1], "0", "UTC")
                             ELSE Exc("ValueError", "fromisoformat")
              [] sh = "fracz" -> IF py = "py311" THEN DateTime(v.q[1], v.q[3], "UTC")
                                 ELSE Exc("ValueError", "fromisoformat")
              [] OTHER -> Exc("ValueError", "fromisoformat")
      [] v.t = "str" -> Exc("ValueError", "fromisoformat")
      [] OTHER -> Exc("TypeError", "fromisoformat")

\* utils.parse_timestamp(v): an ISO-8601 string, with or without fractional
\* seconds and zone marker, to a timestamp in UTC
parse_timestamp(v) ==
    CASE v.t = "cstr" ->
            LET sh == IsoShape(v.q) IN
            CASE sh \in {"plain", "z"} -> DateTime(v.q[1], "0", "UTC")
              [] sh \in {"frac", "fracz"} -> DateTime(v.q[1], v.q[3], "UTC")
              [] OTHER -> Exc("ValueError", "parse_timestamp")
      [] v.t = "str" -> Exc("ValueError", "parse_timestamp")
      [] OTHER -> Exc("TypeError", "parse_timestamp")

\* user.PartialUser(http, id, name): a placeholder carrying identity only
PartialUser(id, name) ==
    Obj("PartialUser", [id |-> id, name |-> name, _http |-> S("http")])

\* user.BitLeaderboardUser(http, data): a user reference with rank and score
BitLeaderboardUser_init ==
    << [a |-> "id", op |-> "item", p |-> <<"user_id">>, q |-> <<>>, k |-> ""],
       [a |-> "name", op |-> "item", p |-> <<"user_name">>, q |-> <<>>, k |-> ""],
       [a |-> "rank", op |-> "item", p |-> <<"rank">>, q |-> <<>>, k |-> ""],
       [a |-> "score", op |-> "item", p |-> <<"score">>, q |-> <<>>, k |-> ""] >>

BitLeaderboardUser_slots == {"id", "name", "_http", "rank", "score"}

ModEventValues == {"moderation.moderator.add", "moderation.moderator.remove"}

\* enums.ModEventEnum(value=v)
ModEventEnum(v) ==
    IF v.t = "str" /\ v.s \in ModEventValues THEN [t |-> "enum", e |-> v.s]
    ELSE Exc("ValueError", "ModEventEnum")

----------------------------------------------------------------------------
(* The statements of a constructor.  A constructor is the sequence of its  *)
(* assignments "self.a = <expression>", each written as one of the forms   *)
(* below; p and q are key paths into the payload, k names a class or a     *)
(* parameter.                                                              *)

St(a, op, p, q, k) == [a |-> a, op |-> op, p |-> p, q |-> q, k |-> k]

Copy(a, p) == St(a, "item", p, <<>>, "")            \* data[p1]..[pn]
Opt(a, key) == St(a, "get", <<key>>, <<>>, "")      \* data.get(key, None)
Time(a, p) == St(a, "ts", p, <<>>, "")              \* parse_timestamp(data[p])
TimeIf(a, p) == St(a, "ts_if", p, <<>>, "")         \* parse_timestamp(data[p]) if data[p] else None
TimeSplit(a, p) == St(a, "ts_split", p, <<>>, "")   \* parse_timestamp(data[p].split(" ")[0])
Iso(a, p) == St(a, "iso", p, <<>>, "")              \* datetime.fromisoformat(data[p])
ParseTime(a, key) == St(a, "parse_time", <<key>>, <<>>, "")  \* self._parse_time(data, key)
ToInt(a, p) == St(a, "int", p, <<>>, "")            \* int(data[p])
ToFloat(a, p) == St(a, "float", p, <<>>, "")        \* float(data[p])
Tier(a, p) == St(a, "tier", p, <<>>, "")            \* round(int(data[p]) / 1000)
Enum(a, p) == St(a, "enum", p, <<>>, "")            \* enums.ModEventEnum(value=data[p])
User(a, p, q) == St(a, "user", p, q, "")            \* PartialUser(http, data[p], data[q])
UserId(a, p) == St(a, "user_id", p, <<>>, "")       \* PartialUser(http, id=data[p], name=None)
ArgOrUser(a, k, p, q) == St(a, "arg_or_user", p, q, k)  \* k or PartialUser(http, data[p], data[q])
Arg(a, k) == St(a, "arg", <<>>, <<>>, k)            \* the parameter k
ArgOrEmpty(a, k) == St(a, "arg_or_empty", <<>>, <<>>, k)  \* k or []
UserIdOf(a, k) == St(a, "user_id_of", <<>>, <<>>, k)  \* k.id if isinstance(k, PartialUser) else k
Http(a) == St(a, "http", <<>>, <<>>, "")            \* the http handle
SetNone(a) == St(a, "none", <<>>, <<>>, "")         \* None
Sub(a, k, p) == St(a, "sub", p, <<>>, k)            \* k(http, data[p])
SubIf(a, k, p) == St(a, "sub_if", p, <<>>, k)       \* k(data[p]) if data[p] else None
Each(a, k, p) == St(a, "each", p, <<>>, k)          \* [k(http, x) for x in data[p]]
EachIf(a, k, p) == St(a, "each_if", p, <<>>, k)     \* the same if data[p], else None
EachUser(a, p, q) == St(a, "each_user", p, q, "")   \* [PartialUser(http, x[q1], x[q2]) for x in data[p]]

----------------------------------------------------------------------------
(* The record types: __slots__ and __init__ of each class, in source order *)

BitsLeaderboard_slots == {"_http", "leaders", "started_at", "ended_at"}

BitsLeaderboard_init ==
    << Http("_http"),
       Iso("started_at", <<"date_range", "started_at">>),
       Iso("ended_at", <<"date_range", "ended_at">>),
       Each("leaders", "BitLeaderboardUser", <<"data">>) >>

CheerEmoteTier_slots == {"min_bits", "id", "colour", "images", "can_cheer", "show_in_bits_card"}

CheerEmoteTier_init ==
    << Copy("min_bits", <<"min_bits">>),
       Copy("id", <<"id">>),
       Copy("colour", <<"colour">>),
       Copy("images", <<"images">>),
       Copy("can_cheer", <<"can_cheer">>),
       Copy("show_in_bits_card", <<"show_in_bits_card">>) >>

CheerEmote_slots == {"_http", "prefix", "tiers", "type", "order", "last_updated", "charitable"}

CheerEmote_init ==
    << Http("_http"),
       Copy("prefix", <<"prefix">>),
       Each("tiers", "CheerEmoteTier", <<"tiers">>),
       Copy("type", <<"type">>),
       Copy("order", <<"order">>),
       Time("last_updated", <<"last_updated">>),
       Copy("charitable", <<"is_charitable">>) >>

Clip_slots ==
    {"id", "url", "embed_url", "broadcaster", "creator", "video_id", "game_id",
     "language", "title", "views", "created_at", "thumbnail_url"}

Clip_init ==
    << Copy("id", <<"id">>),
       Copy("url", <<"url">>),
       Copy("embed_url", <<"embed_url">>),
       User("broadcaster", <<"broadcaster_id">>, <<"broadcaster_name">>),
       User("creator", <<"creator_id">>, <<"creator_name">>),
       Copy("video_id", <<"video_id">>),
       Copy("game_id", <<"game_id">>),
       Copy("language", <<"language">>),
       Copy("title", <<"title">>),
       Copy("views", <<"view_count">>),
       Time("created_at", <<"created_at">>),
       Copy("thumbnail_url", <<"thumbnail_url">>) >>

HypeTrainContribution_slots == {"total", "type", "user"}

\* HypeTrainContribution.__init__ with the placeholder named after a field
\* of the payload
HypeTrainContribution_init_named ==
    << Copy("total", <<"total">>),
       Copy("type", <<"type">>),
       User("user", <<"user">>, <<"type">>) >>

HypeTrainContribution_init ==
    << Copy("total", <<"total">>),
       Copy("type", <<"type">>),
       UserId("user", <<"user">>) >>

HypeTrainEvent_slots ==
    {"id", "type", "timestamp", "version", "broadcaster", "expiry", "event_id",
     "goal", "level", "started_at", "top_contributions", "contributions_total",
     "cooldown_end_time", "last_contribution"}

HypeTrainEvent_init ==
    << Copy("id", <<"id">>),
       Copy("event_id", <<"event_data", "id">>),
       Copy("type", <<"event_type">>),
       Copy("version", <<"version">>),
       UserId("broadcaster", <<"event_data", "broadcaster_id">>),
       Time("timestamp", <<"event_timestamp">>),
       Time("cooldown_end_time", <<"event_data", "cooldown_end_time">>),
       Time("expiry", <<"expires_at">>),
       Time("started_at", <<"event_data", "started_at">>),
       Sub("last_contribution", "HypeTrainContribution", <<"event_data", "last_contribution">>),
       Copy("level", <<"event_data", "level">>),
       Each("top_contributions", "HypeTrainContribution", <<"event_data", "top_contributions">>),
       Copy("contributions_total", <<"event_data", "total">>),
       Copy("goal", <<"event_data", "goal">>) >>

BanEvent_slots ==
    {"id", "type", "timestamp", "version", "broadcaster", "user", "expires_at",
     "moderator", "reason"}

BanEvent_init ==
    << Copy("id", <<"id">>),
       Copy("type", <<"event_type">>),
       Time("timestamp", <<"event_timestamp">>),
       ToFloat("version", <<"version">>),
       Copy("reason", <<"event_data", "reason">>),
       ArgOrUser("broadcaster", "broadcaster",
                 <<"event_data", "broadcaster_id">>, <<"event_data", "broadcaster_name">>),
       User("user", <<"event_data", "user_id">>, <<"event_data", "user_name">>),
       User("moderator", <<"event_data", "moderator_id">>, <<"event_data", "moderator_name">>),
       TimeIf("expires_at", <<"event_data", "expires_at">>) >>

FollowEvent_slots == {"from_user", "to_user", "followed_at"}

\* FollowEvent.__init__ without the "from_ or" / "to or" short-circuits: the
\* references are always built from the payload
FollowEvent_init_eager ==
    << User("from_user", <<"from_id">>, <<"from_name">>),
       User("to_user", <<"to_id">>, <<"to_name">>),
       Time("followed_at", <<"followed_at">>) >>

FollowEvent_init ==
    << ArgOrUser("from_user", "from_", <<"from_id">>, <<"from_name">>),
       ArgOrUser("to_user", "to", <<"to_id">>, <<"to_name">>),
       Time("followed_at", <<"followed_at">>) >>

SubscriptionEvent_slots == {"broadcaster", "gift", "tier", "plan_name", "user"}

\* SubscriptionEvent.__init__ building both placeholders from the payload
\* whatever the caller supplied
SubscriptionEvent_init_eager ==
    << User("broadcaster", <<"broadcaster_id">>, <<"broadcaster_name">>),
       User("user", <<"user_id">>, <<"user_name">>),
       Tier("tier", <<"tier">>),
       Copy("plan_name", <<"plan_name">>),
       Copy("gift", <<"is_gift">>) >>

SubscriptionEvent_init ==
    << ArgOrUser("broadcaster", "broadcaster", <<"broadcaster_id">>, <<"broadcaster_name">>),
       ArgOrUser("user", "user", <<"user_id">>, <<"user_name">>),
       Tier("tier", <<"tier">>),
       Copy("plan_name", <<"plan_name">>),
       Copy("gift", <<"is_gift">>) >>

Marker_slots == {"id", "created_at", "description", "position", "url"}

Marker_init ==
    << Copy("id", <<"id">>),
       Time("created_at", <<"created_at">>),
       Copy("description", <<"description">>),
       Copy("position", <<"position_seconds">>),
       Opt("url", "URL") >>

VideoMarkers_slots == {"id", "markers"}

VideoMarkers_init ==
    << Copy("id", <<"video_id">>),
       Each("markers", "Marker", <<"markers">>) >>

Game_slots == {"id", "name", "box_art_url"}

Game_init ==
    << ToInt("id", <<"id">>),
       Copy("name", <<"name">>),
       Copy("box_art_url", <<"box_art_url">>) >>

ModEvent_slots == {"id", "type", "timestamp", "version", "broadcaster", "user"}

ModEvent_init ==
    << Copy("id", <<"id">>),
       Enum("type", <<"event_type">>),
       Time("timestamp", <<"event_timestamp">>),
       Copy("version", <<"version">>),
       Arg("broadcaster", "broadcaster"),
       User("user", <<"event_data", "user_id">>, <<"event_data", "user_name">>) >>

AutomodCheckMessage_slots == {"id", "text", "user_id"}

AutomodCheckMessage_init ==
    << Arg("id", "id"),
       Arg("text", "text"),
       UserIdOf("user_id", "user") >>

AutomodCheckResponse_slots == {"id", "permitted"}

AutomodCheckResponse_init ==
    << Copy("id", <<"msg_id">>),
       Copy("permitted", <<"is_permitted">>) >>

Extension_slots == {"id", "active", "version", "_x", "_y"}

Extension_init ==
    << Copy("id", <<"id">>),
       Copy("version", <<"version">>),
       Copy("active", <<"active">>),
       SetNone("_x"),
       SetNone("_y") >>

\* the classmethod Extension.new(active, version, id, x, y)
Extension_new ==
    << Arg("active", "active"),
       Arg("version", "version"),
       Arg("id", "id"),
       Arg("_x", "x"),
       Arg("_y", "y") >>

MaybeActiveExtension_slots == {"id", "version", "name", "can_activate", "types"}

MaybeActiveExtension_init ==
    << Copy("id", <<"id">>),
       Copy("version", <<"version">>),
       Copy("name", <<"name">>),
       Copy("can_activate", <<"can_activate">>),
       Copy("types", <<"type">>) >>

ActiveExtension_slots == {"id", "active", "name", "version", "x", "y"}

ActiveExtension_init ==
    << Copy("active", <<"active">>),
       Opt("id", "id"),
       Opt("version", "version"),
       Opt("name", "name"),
       Opt("x", "x"),
       Opt("y", "y") >>

ExtensionBuilder_slots == {"panels", "overlays", "components"}

ExtensionBuilder_init ==
    << ArgOrEmpty("panels", "panels"),
       ArgOrEmpty("overlays", "overlays"),
       ArgOrEmpty("components", "components") >>

Video_slots ==
    {"_http", "id", "user", "title", "description", "created_at", "published_at",
     "url", "thumbnail_url", "viewable", "view_count", "language", "type", "duration"}

Video_init ==
    << Http("_http"),
       ToInt("id", <<"id">>),
       ArgOrUser("user", "user", <<"user_id">>, <<"user_name">>),
       Copy("title", <<"title">>),
       Copy("description", <<"description">>),
       Time("created_at", <<"created_at">>),
       Time("published_at", <<"published_at">>),
       Copy("url", <<"url">>),
       Copy("thumbnail_url", <<"thumbnail_url">>),
       Copy("viewable", <<"viewable">>),
       Copy("view_count", <<"view_count">>),
       Copy("language", <<"language">>),
       Copy("type", <<"type">>),
       Copy("duration", <<"duration">>) >>

Tag_slots == {"id", "auto", "localization_names", "localization_descriptions"}

Tag_init ==
    << Copy("id", <<"tag_id">>),
       Copy("auto", <<"is_auto">>),
       Copy("localization_names", <<"localization_names">>),
       Copy("localization_descriptions", <<"localization_descriptions">>) >>

WebhookSubscription_slots == {"callback", "expires_at", "topic"}

WebhookSubscription_init ==
    << Copy("callback", <<"callback">>),
       Time("expires_at", <<"expired_at">>),
       Copy("topic", <<"topic">>) >>

Stream_slots ==
    {"id", "user", "game_id", "game_name", "type", "title", "viewer_count",
     "started_at", "language", "thumbnail_url", "tag_ids", "is_mature"}

Stream_init ==
    << Copy("id", <<"id">>),
       User("user", <<"user_id">>, <<"user_name">>),
       Copy("game_id", <<"game_id">>),
       Copy("game_name", <<"game_name">>),
       Copy("type", <<"type">>),
       Copy("title", <<"title">>),
       Copy("viewer_count", <<"viewer_count">>),
       Time("started_at", <<"started_at">>),
       Copy("language", <<"language">>),
       Copy("thumbnail_url", <<"thumbnail_url">>),
       Copy("tag_ids", <<"tag_ids">>),
       Copy("is_mature", <<"is_mature">>) >>

ChannelInfo_slots == {"user", "game_id", "game_name", "title", "language", "delay"}

ChannelInfo_init ==
    << User("user", <<"broadcaster_id">>, <<"broadcaster_name">>),
       Copy("game_id", <<"game_id">>),
       Copy("game_name", <<"game_name">>),
       Copy("title", <<"title">>),
       Copy("language", <<"broadcaster_language">>),
       Copy("delay", <<"delay">>) >>

Prediction_slots ==
    {"user", "prediction_id", "title", "winning_outcome_id", "outcomes",
     "prediction_window", "prediction_status", "created_at", "ended_at", "locked_at"}

Prediction_init ==
    << User("user", <<"broadcaster_id">>, <<"broadcaster_name">>),
       Copy("prediction_id", <<"id">>),
       Copy("title", <<"title">>),
       Copy("winning_outcome_id", <<"winning_outcome_id">>),
       Each("outcomes", "PredictionOutcome", <<"outcomes">>),
       Copy("prediction_window", <<"prediction_window">>),
       Copy("prediction_status", <<"status">>),
       ParseTime("created_at", "created_at"),
       ParseTime("ended_at", "ended_at"),
       ParseTime("locked_at", "locked_at") >>

Predictor_slots == {"outcome_id", "title", "channel_points", "color"}

Predictor_init ==
    << Copy("channel_points_used", <<"channel_points_used">>),
       Copy("channel_points_won", <<"channel_points_won">>),
       User("user", <<"user", "id">>, <<"user", "name">>) >>

PredictionOutcome_slots ==
    {"outcome_id", "title", "channel_points", "color", "users", "top_predictors"}

PredictionOutcome_init ==
    << Copy("outcome_id", <<"id">>),
       Copy("title", <<"title">>),
       Copy("channel_points", <<"channel_points">>),
       Copy("color", <<"color">>),
       Copy("users", <<"users">>),
       EachIf("top_predictors", "Predictor", <<"top_predictors">>) >>

Schedule_slots == {"segments", "user", "vacation"}

Schedule_init ==
    << Each("segments", "ScheduleSegment", <<"data", "segments">>),
       User("user", <<"data", "broadcaster_id">>, <<"data", "broadcaster_login">>),
       SubIf("vacation", "ScheduleVacation", <<"data", "vacation">>) >>

ScheduleSegment_slots ==
    {"id", "start_time", "end_time", "title", "canceled_until", "category", "is_recurring"}

\* ScheduleSegment.__init__ with the category never built
ScheduleSegment_init_no_category ==
    << Copy("id", <<"id">>),
       Time("start_time", <<"start_time">>),
       Time("end_time", <<"end_time">>),
       Copy("title", <<"title">>),
       TimeIf("canceled_until", <<"canceled_until">>),
       SetNone("category"),
       Copy("is_recurring", <<"is_recurring">>) >>

ScheduleSegment_init ==
    << Copy("id", <<"id">>),
       Time("start_time", <<"start_time">>),
       Time("end_time", <<"end_time">>),
       Copy("title", <<"title">>),
       TimeIf("canceled_until", <<"canceled_until">>),
       SubIf("category", "ScheduleCategory", <<"category">>),
       Copy("is_recurring", <<"is_recurring">>) >>

ScheduleCategory_slots == {"id", "name"}

ScheduleCategory_init ==
    << Copy("id", <<"id">>),
       Copy("name", <<"name">>) >>

ScheduleVacation_slots == {"start_time", "end_time"}

ScheduleVacation_init ==
    << Time("start_time", <<"start_time">>),
       Time("end_time", <<"end_time">>) >>

Team_slots ==
    {"users", "background_image_url", "banner", "created_at", "updated_at",
     "info", "thumbnail_url", "team_name", "team_display_name", "id"}

Team_init ==
    << EachUser("users", <<"users">>, <<"user_id", "user_login">>),
       Copy("background_image_url", <<"background_image_url">>),
       Copy("banner", <<"banner">>),
       TimeSplit("created_at", <<"created_at">>),
       TimeSplit("updated_at", <<"updated_at">>),
       Copy("info", <<"info">>),
       Copy("thumbnail_url", <<"thumbnail_url">>),
       Copy("team_name", <<"team_name">>),
       Copy("team_display_name", <<"team_display_name">>),
       Copy("id", <<"id">>) >>

ChannelTeams_slots ==
    {"broadcaster", "background_image_url", "banner", "created_at", "updated_at",
     "info", "thumbnail_url", "team_name", "team_display_name", "id"}

ChannelTeams_init ==
    << User("broadcaster", <<"broadcaster_id">>, <<"broadcaster_login">>),
       Copy("background_image_url", <<"background_image_url">>),
       Copy("banner", <<"banner">>),
       TimeSplit("created_at", <<"created_at">>),
       TimeSplit("updated_at", <<"updated_at">>),
       Copy("info", <<"info">>),
       Copy("thumbnail_url", <<"thumbnail_url">>),
       Copy("team_name", <<"team_name">>),
       Copy("team_display_name", <<"team_display_name">>),
       Copy("id", <<"id">>) >>

----------------------------------------------------------------------------
(* Running a constructor *)

InitOf(cls) ==
    CASE cls = "BitsLeaderboard" -> BitsLeaderboard_init
      [] cls = "BitLeaderboardUser" -> BitLeaderboardUser_init
      [] cls = "CheerEmoteTier" -> CheerEmoteTier_init
      [] cls = "CheerEmote" -> CheerEmote_init
      [] cls = "Clip" -> Clip_init
      [] cls = "HypeTrainContribution" -> HypeTrainContribution_init
      [] cls = "HypeTrainEvent" -> HypeTrainEvent_init
      [] cls = "BanEvent" -> BanEvent_init
      [] cls = "FollowEvent" -> FollowEvent_init
      [] cls = "SubscriptionEvent" -> SubscriptionEvent_init
      [] cls = "Marker" -> Marker_init
      [] cls = "VideoMarkers" -> VideoMarkers_init
      [] cls = "Game" -> Game_init
      [] cls = "ModEvent" -> ModEvent_init
      [] cls = "AutomodCheckMessage" -> AutomodCheckMessage_init
      [] cls = "AutomodCheckResponse" -> AutomodCheckResponse_init
      [] cls = "Extension" -> Extension_init
      [] cls = "Extension.new" -> Extension_new
      [] cls = "MaybeActiveExtension" -> MaybeActiveExtension_init
      [] cls = "ActiveExtension" -> ActiveExtension_init
      [] cls = "ExtensionBuilder" -> ExtensionBuilder_init
      [] cls = "Video" -> Video_init
      [] cls = "Tag" -> Tag_init
      [] cls = "WebhookSubscription" -> WebhookSubscription_init
      [] cls = "Stream" -> Stream_init
      [] cls = "ChannelInfo" -> ChannelInfo_init
      [] cls = "Prediction" -> Prediction_init
      [] cls = "Predictor" -> Predictor_init
      [] cls = "PredictionOutcome" -> PredictionOutcome_init
      [] cls = "Schedule" -> Schedule_init
      [] cls = "ScheduleSegment" -> ScheduleSegment_init
      [] cls = "ScheduleCategory" -> ScheduleCategory_init
      [] cls = "ScheduleVacation" -> ScheduleVacation_init
      [] cls = "Team" -> Team_init
      [] cls = "ChannelTeams" -> ChannelTeams_init

\* the class an entry point instantiates
ClassOf(cls) == IF cls = "Extension.new" THEN "Extension" ELSE cls

\* every slot an instance has: the class's own __slots__ and its bases'
SlotsOf(cls) ==
    CASE cls = "BitsLeaderboard" -> BitsLeaderboard_slots
      [] cls = "BitLeaderboardUser" -> BitLeaderboardUser_slots
      [] cls = "CheerEmoteTier" -> CheerEmoteTier_slots
      [] cls = "CheerEmote" -> CheerEmote_slots
      [] cls = "Clip" -> Clip_slots
      [] cls = "HypeTrainContribution" -> HypeTrainContribution_slots
      [] cls = "HypeTrainEvent" -> HypeTrainEvent_slots
      [] cls = "BanEvent" -> BanEvent_slots
      [] cls = "FollowEvent" -> FollowEvent_slots
      [] cls = "SubscriptionEvent" -> SubscriptionEvent_slots
      [] cls = "Marker" -> Marker_slots
      [] cls = "VideoMarkers" -> VideoMarkers_slots
      [] cls = "Game" -> Game_slots
      [] cls = "ModEvent" -> ModEvent_slots
      [] cls = "AutomodCheckMessage" -> AutomodCheckMessage_slots
      [] cls = "AutomodCheckResponse" -> AutomodCheckResponse_slots
      [] cls = "Extension" -> Extension_slots
      [] cls = "MaybeActiveExtension" -> MaybeActiveExtension_slots \cup Extension_slots
      [] cls = "ActiveExtension" -> ActiveExtension_slots \cup Extension_slots
      [] cls = "ExtensionBuilder" -> ExtensionBuilder_slots
      [] cls = "Video" -> Video_slots
      [] cls = "Tag" -> Tag_slots
      [] cls = "WebhookSubscription" -> WebhookSubscription_slots
      [] cls = "Stream" -> Stream_slots
      [] cls = "ChannelInfo" -> ChannelInfo_slots
      [] cls = "Prediction" -> Prediction_slots
      [] cls = "Predictor" -> Predictor_slots
      [] cls = "PredictionOutcome" -> PredictionOutcome_slots
      [] cls = "Schedule" -> Schedule_slots
      [] cls = "ScheduleSegment" -> ScheduleSegment_slots
      [] cls = "ScheduleCategory" -> ScheduleCategory_slots
      [] cls = "ScheduleVacation" -> ScheduleVacation_slots
      [] cls = "Team" -> Team_slots
      [] cls = "ChannelTeams" -> ChannelTeams_slots

\* isinstance(v, PartialUser): User and BitLeaderboardUser derive from it
IsPartialUser(v) ==
    v.t = "obj" /\ v.cls \in {"PartialUser", "User", "BitLeaderboardUser"}

\* Prediction._parse_time(data, field)
Prediction_parse_time(py, h, data, field) ==
    LET c == Deref(h, data) IN
    IF c.t # "dict" THEN Exc("TypeError", field)
    ELSE IF field \notin DOMAIN c.d \/ c.d[field].t = "null" THEN Null
    ELSE LET time == SplitFirst(c.d[field], ".") IN
         IF IsExc(time) THEN time ELSE fromisoformat(py, time)

\* int(v), the division by 1000 left out
decode_tier_raw(v) == PyInt(v)

\* round(int(v) / 1000)
decode_tier(v) ==
    LET n == PyInt(v) IN
    IF IsExc(n) THEN n ELSE I(PyRoundDiv(n.n, 1000))

\* PartialUser(http, d[idkey], d[namekey]): the id is looked up first
UserFrom(h, d, idpath, namepath) ==
    LET id == Item(h, d, idpath) IN
    IF IsExc(id) THEN id
    ELSE LET name == Item(h, d, namepath) IN
         IF IsExc(name) THEN name ELSE PartialUser(id, name)

RECURSIVE New(_, _), Exec(_, _, _, _, _), Eval(_, _), NewEach(_, _, _, _)

\* the value of the right-hand side of statement s, or the exception it raises
Eval(s, env) ==
    LET h == env.h
        x == Item(h, env.data, s.p)
        a == env.args[s.k]
    IN
    CASE s.op = "item" -> x
      [] s.op = "get" -> Get(h, env.data, s.p[1])
      [] s.op = "ts" -> IF IsExc(x) THEN x ELSE parse_timestamp(Deref(h, x))
      [] s.op = "ts_if" ->
            IF IsExc(x) THEN x
            ELSE IF Truthy(h, x) THEN parse_timestamp(Deref(h, x)) ELSE Null
      [] s.op = "ts_split" ->
            IF IsExc(x) THEN x
            ELSE LET y == SplitFirst(Deref(h, x), " ") IN
                 IF IsExc(y) THEN y ELSE parse_timestamp(y)
      [] s.op = "iso" -> IF IsExc(x) THEN x ELSE fromisoformat(env.py, Deref(h, x))
      [] s.op = "parse_time" -> Prediction_parse_time(env.py, h, env.data, s.p[1])
      [] s.op = "int" -> IF IsExc(x) THEN x ELSE PyInt(Deref(h, x))
      [] s.op = "float" -> IF IsExc(x) THEN x ELSE PyFloat(Deref(h, x))
      [] s.op = "tier" -> IF IsExc(x) THEN x ELSE decode_tier(Deref(h, x))
      [] s.op = "enum" -> IF IsExc(x) THEN x ELSE ModEventEnum(Deref(h, x))
      [] s.op = "user" -> UserFrom(h, env.data, s.p, s.q)
      [] s.op = "user_id" -> IF IsExc(x) THEN x ELSE PartialUser(x, Null)
      [] s.op = "arg_or_user" ->
            IF Truthy(h, a) THEN a ELSE UserFrom(h, env.data, s.p, s.q)
      [] s.op = "arg" -> a
      [] s.op = "arg_or_empty" -> IF Truthy(h, a) THEN a ELSE L(<<>>)
      [] s.op = "user_id_of" -> IF IsPartialUser(a) THEN a.attrs["id"] ELSE a
      [] s.op = "http" -> S("http")
      [] s.op = "none" -> Null
      [] s.op = "sub" -> IF IsExc(x) THEN x ELSE New(s.k, [env EXCEPT !.data = x])
      [] s.op = "sub_if" ->
            IF IsExc(x) THEN x
            ELSE IF Truthy(h, x) THEN New(s.k, [env EXCEPT !.data = x]) ELSE Null
      [] s.op = "each" ->
            IF IsExc(x) THEN x
            ELSE IF Deref(h, x).t # "list" THEN Exc("TypeError", "iter")
            ELSE NewEach(s, Deref(h, x).l, 1, env)
      [] s.op = "each_if" ->
            IF IsExc(x) THEN x
            ELSE IF ~Truthy(h, x) THEN Null
            ELSE IF Deref(h, x).t # "list" THEN Exc("TypeError", "iter")
            ELSE NewEach(s, Deref(h, x).l, 1, env)
      [] s.op = "each_user" ->
            IF IsExc(x) THEN x
            ELSE IF Deref(h, x).t # "list" THEN Exc("TypeError", "iter")
            ELSE NewEach(s, Deref(h, x).l, 1, env)

\* the list comprehension with each record put in front of those built
\* before it
NewEach_reversed(s, q, i, env) ==
    IF i > Len(q) THEN L(<<>>)
    ELSE LET one == IF s.op = "each_user"
                    THEN UserFrom(env.h, q[i], <<s.q[1]>>, <<s.q[2]>>)
                    ELSE New(s.k, [env EXCEPT !.data = q[i]])
         IN IF IsExc(one) THEN one
            ELSE LET rest == NewEach(s, q, i + 1, env) IN
                 IF IsExc(rest) THEN rest ELSE L(rest.l \o <<one>>)

\* the list comprehension of statement s over the elements i.. of q: the
\* records in the order of q, or the first exception
NewEach(s, q, i, env) ==
    IF i > Len(q) THEN L(<<>>)
    ELSE LET one == IF s.op = "each_user"
                    THEN UserFrom(env.h, q[i], <<s.q[1]>>, <<s.q[2]>>)
                    ELSE New(s.k, [env EXCEPT !.data = q[i]])
         IN IF IsExc(one) THEN one
            ELSE LET rest == NewEach(s, q, i + 1, env) IN
                 IF IsExc(rest) THEN rest ELSE L(<<one>> \o rest.l)

\* the statements i.. of a constructor, run on an instance holding attrs: an
\* assignment to a name that is no slot of the class raises AttributeError
Exec(cls, stmts, i, attrs, env) ==
    IF i > Len(stmts) THEN Obj(cls, attrs)
    ELSE LET s == stmts[i]
             v == Eval(s, env)
         IN IF IsExc(v) THEN v
            ELSE IF s.a \notin SlotsOf(cls) THEN Exc("AttributeError", s.a)
            ELSE Exec(cls, stmts, i + 1,
                      [n \in DOMAIN attrs \cup {s.a} |->
                          IF n = s.a THEN v ELSE attrs[n]],
                      env)

\* cls(http, data, ...): the instance, or the exception that reaches the caller
New(cls, env) == Exec(ClassOf(cls), InitOf(cls), 1, NoAttrs, env)

Env(py, h, data, args) == [py |-> py, h |-> h, data |-> data, args |-> args]

----------------------------------------------------------------------------
(* Serialisation and the other methods *)

\* self.<name>: reading a slot that was never assigned raises AttributeError
Attr(o, name) ==
    IF name \in DOMAIN o.attrs THEN o.attrs[name] ELSE Exc("AttributeError", name)

\* str(n) for n >= 0
RECURSIVE PyStr(_)
PyStr(n) == IF n < 10 THEN Digits[n + 1] ELSE PyStr(n \div 10) \o Digits[(n % 10) + 1]

ODict(keys, f) == [t |-> "odict", keys |-> keys, m |-> f]

\* d[key] = val on a dict that tracks insertion order
Put(d, key, val) ==
    ODict(IF key \in DOMAIN d.m THEN d.keys ELSE Append(d.keys, key),
          [n \in DOMAIN d.m \cup {key} |-> IF n = key THEN val ELSE d.m[n]])

\* Extension._to_dict testing the coordinates for truth ("if self._x:")
Extension_to_dict_truthy(o) ==
    LET active == Attr(o, "active")
        id == Attr(o, "id")
        version == Attr(o, "version")
        x == Attr(o, "_x")
        y == Attr(o, "_y")
    IN IF IsExc(active) THEN active
       ELSE IF IsExc(id) THEN id
       ELSE IF IsExc(version) THEN version
       ELSE LET v == ODict(<<"active", "id", "version">>,
                           [active |-> active, id |-> id, version |-> version])
            IN IF IsExc(x) THEN x
               ELSE LET vx == IF Truthy(<<>>, x) THEN Put(v, "x", x) ELSE v IN
                    IF IsExc(y) THEN y
                    ELSE IF Truthy(<<>>, y) THEN Put(vx, "y", y) ELSE vx

\* Extension._to_dict(self)
Extension_to_dict(o) ==
    LET active == Attr(o, "active")
        id == Attr(o, "id")
        version == Attr(o, "version")
        x == Attr(o, "_x")
        y == Attr(o, "_y")
    IN IF IsExc(active) THEN active
       ELSE IF IsExc(id) THEN id
       ELSE IF IsExc(version) THEN version
       ELSE LET v == ODict(<<"active", "id", "version">>,
                           [active |-> active, id |-> id, version |-> version])
            IN IF IsExc(x) THEN x
               ELSE LET vx == IF x.t # "null" THEN Put(v, "x", x) ELSE v IN
                    IF IsExc(y) THEN y
                    ELSE IF y.t # "null" THEN Put(vx, "y", y) ELSE vx

\* {str(x): y._to_dict() for x, y in enumerate(q)}, elements i.. of q added to acc
RECURSIVE FlattenFrom(_, _, _)
FlattenFrom(q, i, acc) ==
    IF i > Len(q) THEN acc
    ELSE LET y == Extension_to_dict(q[i]) IN
         IF IsExc(y) THEN y
         ELSE FlattenFrom(q, i + 1, Put(acc, PyStr(i - 1), y))

Flatten(q) == FlattenFrom(q, 1, ODict(<<>>, NoAttrs))

\* ExtensionBuilder._to_dict with the panels written under "overlay" and the
\* overlays under "panel"
ExtensionBuilder_to_dict_swapped(o) ==
    LET panel == Flatten(o.attrs["overlays"].l)
        overlay == Flatten(o.attrs["panels"].l)
        component == Flatten(o.attrs["components"].l)
    IN IF IsExc(panel) THEN panel
       ELSE IF IsExc(overlay) THEN overlay
       ELSE IF IsExc(component) THEN component
       ELSE ODict(<<"panel", "overlay", "component">>,
                  [panel |-> panel, overlay |-> overlay, component |-> component])

\* ExtensionBuilder._to_dict(self)
ExtensionBuilder_to_dict(o) ==
    LET panel == Flatten(o.attrs["panels"].l)
        overlay == Flatten(o.attrs["overlays"].l)
        component == Flatten(o.attrs["components"].l)
    IN IF IsExc(panel) THEN panel
       ELSE IF IsExc(overlay) THEN overlay
       ELSE IF IsExc(component) THEN component
       ELSE ODict(<<"panel", "overlay", "component">>,
                  [panel |-> panel, overlay |-> overlay, component |-> component])

\* str(v) for the values a user id takes
StrOf(v) ==
    CASE v.t = "int" -> S(PyStr(v.n))
      [] v.t = "null" -> S("None")
      [] OTHER -> v

\* template.format(**kw) on the pieces i.. of q, the output so far in acc:
\* "{{" and "}}" stand for one brace, "{name}" for the keyword argument of
\* that name, "{}" and "{0}" for a positional argument, and a brace on its
\* own is an error
RECURSIVE FormatFrom(_, _, _, _)
FormatFrom(q, i, kw, acc) ==
    IF i > Len(q) THEN CS(acc)
    ELSE IF q[i] = "{"
    THEN IF i = Len(q) THEN Exc("ValueError", "format")
         ELSE IF q[i + 1] = "{" THEN FormatFrom(q, i + 2, kw, Append(acc, "{"))
         ELSE IF q[i + 1] = "}" \/ IsDigit(q[i + 1]) THEN Exc("IndexError", "format")
         ELSE IF i + 1 = Len(q) \/ q[i + 2] # "}" THEN Exc("ValueError", "format")
         ELSE IF q[i + 1] \notin DOMAIN kw THEN Exc("KeyError", q[i + 1])
         ELSE FormatFrom(q, i + 3, kw, Append(acc, StrOf(kw[q[i + 1]]).s))
    ELSE IF q[i] = "}"
    THEN IF i < Len(q) /\ q[i + 1] = "}" THEN FormatFrom(q, i + 2, kw, Append(acc, "}"))
         ELSE Exc("ValueError", "format")
    ELSE FormatFrom(q, i + 1, kw, Append(acc, q[i]))

\* Game.art_url(self, width, height)
Game_art_url(o, width, height) ==
    LET url == o.attrs["box_art_url"] IN
    CASE url.t = "cstr" -> FormatFrom(url.q, 1, [width |-> width, height |-> height], <<>>)
      [] url.t = "str" -> url
      [] OTHER -> Exc("AttributeError", "format")

\* AutomodCheckMessage._to_dict with the user id passed on as it is held
AutomodCheckMessage_to_dict_raw(o) ==
    ODict(<<"msg_id", "msg_text", "user_id">>,
          [msg_id |-> o.attrs["id"], msg_text |-> o.attrs["text"],
           user_id |-> o.attrs["user_id"]])

\* AutomodCheckMessage._to_dict(self)
AutomodCheckMessage_to_dict(o) ==
    ODict(<<"msg_id", "msg_text", "user_id">>,
          [msg_id |-> o.attrs["id"], msg_text |-> o.attrs["text"],
           user_id |-> StrOf(o.attrs["user_id"])])

\* the request Video.delete(token) hands to http.delete_videos
Video_delete(o, token) ==
    [t |-> "delete_videos", token |-> token, ids |-> <<StrOf(o.attrs["id"])>>]

----------------------------------------------------------------------------
(* Inputs: the payloads and arguments the constructors are run on.  For    *)
(* each class there is one payload its constructor accepts, Sample(cls, i), *)
(* and a set of variations of it.                                          *)

Dg(i) == Digits[(i % 10) + 1]
Txt(w, i) == S(w \o Dg(i))
Num(i) == CS(<<"4", Dg(i)>>)
DateOf(i) == IF i % 2 = 1 THEN "2021-05-01T12:00:00" ELSE "2021-06-02T08:30:00"

TsPlain(i) == CS(<<DateOf(i)>>)
TsZ(i) == CS(<<DateOf(i), "Z">>)
TsFrac(i) == CS(<<DateOf(i), ".", "123456">>)
TsFracZ(i) == CS(<<DateOf(i), ".", "123456", "Z">>)

\* the containers of a payload that a record may keep a reference to
PayloadHeap ==
    << D([en |-> S("one"), de |-> S("eins")]),
       D([en |-> S("two")]),
       L(<<S("panel"), S("component")>>) >>

RECURSIVE Sample(_, _)
Sample(cls, i) ==
    CASE cls = "BitLeaderboardUser" ->
            D([user_id |-> Num(i), user_name |-> Txt("user", i), rank |-> I(i),
               score |-> I(100 - i)])
      [] cls = "BitsLeaderboard" ->
            D([date_range |-> D([started_at |-> TsPlain(1), ended_at |-> TsPlain(2)]),
               data |-> L(<<Sample("BitLeaderboardUser", 1)>>)])
      [] cls = "CheerEmoteTier" ->
            D([min_bits |-> I(i), id |-> Txt("tier", i), colour |-> S("#979797"),
               images |-> Ref(((i - 1) % 2) + 1), can_cheer |-> B(TRUE),
               show_in_bits_card |-> B(TRUE)])
      [] cls = "CheerEmote" ->
            D([prefix |-> S("Cheer"), tiers |-> L(<<Sample("CheerEmoteTier", 1)>>),
               type |-> S("global_first_party"), order |-> I(1),
               last_updated |-> TsZ(1), is_charitable |-> B(FALSE)])
      [] cls = "Clip" ->
            D([id |-> Txt("clip", i), url |-> S("https://clips/a"),
               embed_url |-> S("https://clips/embed"), broadcaster_id |-> Num(1),
               broadcaster_name |-> Txt("user", 1), creator_id |-> Num(2),
               creator_name |-> Txt("user", 2), video_id |-> S("v1"),
               game_id |-> S("g1"), language |-> S("en"), title |-> S("title"),
               view_count |-> I(10), created_at |-> TsZ(1),
               thumbnail_url |-> S("https://clips/thumb")])
      [] cls = "HypeTrainContribution" ->
            D([total |-> I(100 * i), type |-> S("BITS"), user |-> Num(i)])
      [] cls = "HypeTrainEvent" ->
            D([id |-> S("ev1"), event_type |-> S("hypetrain.progression"),
               event_timestamp |-> TsZ(1), version |-> S("1.0"), expires_at |-> TsZ(2),
               event_data |->
                 D([id |-> S("train1"), broadcaster_id |-> Num(1),
                    cooldown_end_time |-> TsZ(2), started_at |-> TsZ(1),
                    last_contribution |-> Sample("HypeTrainContribution", 1),
                    level |-> I(2),
                    top_contributions |-> L(<<Sample("HypeTrainContribution", 1)>>),
                    total |-> I(600), goal |-> I(1800)])])
      [] cls = "BanEvent" ->
            D([id |-> S("ev1"), event_type |-> S("moderation.user.ban"),
               event_timestamp |-> TsZ(1), version |-> CS(<<"1", ".", "0">>),
               event_data |->
                 D([reason |-> S("spam"), broadcaster_id |-> Num(1),
                    broadcaster_name |-> Txt("user", 1), user_id |-> Num(2),
                    user_name |-> Txt("user", 2), moderator_id |-> Num(3),
                    moderator_name |-> Txt("user", 3), expires_at |-> TsZ(2)])])
      [] cls = "FollowEvent" ->
            D([from_id |-> Num(1), from_name |-> Txt("user", 1), to_id |-> Num(2),
               to_name |-> Txt("user", 2), followed_at |-> TsZ(1)])
      [] cls = "SubscriptionEvent" ->
            D([broadcaster_id |-> Num(1), broadcaster_name |-> Txt("user", 1),
               user_id |-> Num(2), user_name |-> Txt("user", 2),
               tier |-> CS(<<"1", "0", "0", "0">>), plan_name |-> S("plan"),
               is_gift |-> B(FALSE)])
      [] cls = "Marker" ->
            D(("URL" :> S("https://marker")) @@
              [id |-> Txt("mark", i), created_at |-> TsZ(i),
               description |-> S("hello"), position_seconds |-> I(10 * i)])
      [] cls = "VideoMarkers" ->
            D([video_id |-> S("v1"), markers |-> L(<<Sample("Marker", 1)>>)])
      [] cls = "Game" ->
            D([id |-> Num(i), name |-> S("game"),
               box_art_url |-> CS(<<"https://art/", "{", "width", "}", "x",
                                    "{", "height", "}", ".jpg">>)])
      [] cls = "ModEvent" ->
            D([id |-> S("ev1"), event_type |-> S("moderation.moderator.add"),
               event_timestamp |-> TsZ(1), version |-> S("1.0"),
               event_data |-> D([user_id |-> Num(2), user_name |-> Txt("user", 2)])])
      [] cls = "AutomodCheckResponse" ->
            D([msg_id |-> S("m1"), is_permitted |-> B(TRUE)])
      [] cls = "Extension" ->
            D([id |-> Txt("ext", i), version |-> S("1.0"), active |-> B(TRUE)])
      [] cls = "MaybeActiveExtension" ->
            D([id |-> Txt("ext", i), version |-> S("1.0"), name |-> S("ext"),
               can_activate |-> B(TRUE), type |-> Ref(3)])
      [] cls = "ActiveExtension" ->
            D([active |-> B(TRUE), id |-> Txt("ext", i), version |-> S("1.0"),
               name |-> S("ext"), x |-> I(0), y |-> I(1)])
      [] cls = "Video" ->
            D([id |-> Num(i), user_id |-> Num(1), user_name |-> Txt("user", 1),
               title |-> S("title"), description |-> S("text"), created_at |-> TsZ(1),
               published_at |-> TsZ(2), url |-> S("https://video"),
               thumbnail_url |-> S("https://thumb"), viewable |-> S("public"),
               view_count |-> I(5), language |-> S("en"), type |-> S("upload"),
               duration |-> S("3m21s")])
      [] cls = "Tag" ->
            D([tag_id |-> Txt("tag", i), is_auto |-> B(FALSE),
               localization_names |-> Ref(1), localization_descriptions |-> Ref(2)])
      [] cls = "WebhookSubscription" ->
            D([callback |-> S("https://cb"), expired_at |-> TsZ(1), topic |-> S("topic")])
      [] cls = "Stream" ->
            D([id |-> Num(i), user_id |-> Num(1), user_name |-> Txt("user", 1),
               game_id |-> Num(2), game_name |-> S("game"), type |-> S("live"),
               title |-> S("title"), viewer_count |-> I(3), started_at |-> TsZ(1),
               language |-> S("en"), thumbnail_url |-> S("https://thumb"),
               tag_ids |-> Ref(3), is_mature |-> B(FALSE)])
      [] cls = "ChannelInfo" ->
            D([broadcaster_id |-> Num(1), broadcaster_name |-> Txt("user", 1),
               game_id |-> Num(2), game_name |-> S("game"), title |-> S("title"),
               broadcaster_language |-> S("en"), delay |-> I(0)])
      [] cls = "Predictor" ->
            D([channel_points_used |-> I(10 * i), channel_points_won |-> I(20 * i),
               user |-> D([id |-> Num(i), name |-> Txt("user", i)])])
      [] cls = "PredictionOutcome" ->
            D([id |-> Txt("out", i), title |-> S("yes"), channel_points |-> I(30),
               color |-> S("BLUE"), users |-> I(2), top_predictors |-> Null])
      [] cls = "Prediction" ->
            D([broadcaster_id |-> Num(1), broadcaster_name |-> Txt("user", 1),
               id |-> S("pred1"), title |-> S("title"), winning_outcome_id |-> Null,
               outcomes |-> L(<<Sample("PredictionOutcome", 1)>>),
               prediction_window |-> I(120), status |-> S("ACTIVE"),
               created_at |-> TsFracZ(1), ended_at |-> TsFracZ(2),
               locked_at |-> TsFracZ(2)])
      [] cls = "ScheduleCategory" ->
            D([id |-> Txt("cat", i), name |-> Txt("category", i)])
      [] cls = "ScheduleVacation" ->
            D([start_time |-> TsZ(1), end_time |-> TsZ(2)])
      [] cls = "ScheduleSegment" ->
            D([id |-> Txt("seg", i), start_time |-> TsZ(1), end_time |-> TsZ(2),
               title |-> S("title"), canceled_until |-> TsZ(2),
               category |-> Sample("ScheduleCategory", i), is_recurring |-> B(TRUE)])
      [] cls = "Schedule" ->
            D([data |->
                 D([segments |-> L(<<Sample("ScheduleSegment", 1)>>),
                    broadcaster_id |-> Num(1), broadcaster_login |-> Txt("user", 1),
                    vacation |-> Sample("ScheduleVacation", 1)])])
      [] cls = "TeamUser" ->
            D([user_id |-> Num(i), user_login |-> Txt("user", i)])
      [] cls = "Team" ->
            D([users |-> L(<<Sample("TeamUser", 1)>>),
               background_image_url |-> Null, banner |-> Null, created_at |-> TsZ(1),
               updated_at |-> TsZ(2), info |-> S("info"),
               thumbnail_url |-> S("https://thumb"), team_name |-> S("team"),
               team_display_name |-> S("Team"), id |-> S("6358")])
      [] cls = "ChannelTeams" ->
            D([broadcaster_id |-> Num(1), broadcaster_login |-> Txt("user", 1),
               background_image_url |-> Null, banner |-> Null, created_at |-> TsZ(1),
               updated_at |-> TsZ(2), info |-> S("info"),
               thumbnail_url |-> S("https://thumb"), team_name |-> S("team"),
               team_display_name |-> S("Team"), id |-> S("6358")])
      [] OTHER -> D(NoAttrs)

\* d with d[p1]..[pn] = v
RECURSIVE SetAt(_, _, _)
SetAt(d, path, v) ==
    IF Len(path) = 1
    THEN D([n \in DOMAIN d.d \cup {path[1]} |-> IF n = path[1] THEN v ELSE d.d[n]])
    ELSE IF d.t = "dict" /\ path[1] \in DOMAIN d.d
    THEN D([d.d EXCEPT ![path[1]] = SetAt(d.d[path[1]], Tail(path), v)])
    ELSE d

\* d without the key d[p1]..[pn]
RECURSIVE DropAt(_, _)
DropAt(d, path) ==
    IF d.t # "dict" \/ path[1] \notin DOMAIN d.d THEN d
    ELSE IF Len(path) = 1
    THEN D([n \in DOMAIN d.d \ {path[1]} |-> d.d[n]])
    ELSE D([d.d EXCEPT ![path[1]] = DropAt(d.d[path[1]], Tail(path))])

SetTo(p, v) == [op |-> "set", p |-> p, v |-> v]
Drop(p) == [op |-> "drop", p |-> p, v |-> Null]

\* a payload after a sequence of changes
RECURSIVE ApplyAll(_, _)
ApplyAll(d, edits) ==
    IF Len(edits) = 0 THEN d
    ELSE LET e == Head(edits) IN
         ApplyAll(IF e.op = "set" THEN SetAt(d, e.p, e.v) ELSE DropAt(d, e.p),
                  Tail(edits))

Stmts(cls) == {InitOf(cls)[j] : j \in 1..Len(InitOf(cls))}

\* the key paths a constructor reads
ReadPaths(cls) ==
    {s.p : s \in {u \in Stmts(cls) : Len(u.p) > 0}}
        \cup {s.q : s \in {u \in Stmts(cls) : u.op \in {"user", "arg_or_user"}}}

\* the statements that tolerate a null or a missing value
OptionalOps == {"get", "parse_time", "ts_if", "sub_if", "each_if"}
OptionalPaths(cls) == {s.p : s \in {u \in Stmts(cls) : u.op \in OptionalOps}}

TimeOps == {"ts", "ts_if", "ts_split", "iso", "parse_time"}
ListOps == {"each", "each_if", "each_user"}
NestOps == {"sub", "sub_if"}

ElemClass(s) == IF s.op = "each_user" THEN "TeamUser" ELSE s.k

RECURSIVE EditAll(_, _)
EditAll(paths, v) ==
    IF paths = {} THEN <<>>
    ELSE LET p == CHOOSE x \in paths : TRUE IN
         <<IF v.t = "exc" THEN Drop(p) ELSE SetTo(p, v)>> \o EditAll(paths \ {p}, v)

\* other values tried in place of a sample's scalar
Alternatives(s) ==
    CASE s.op \in TimeOps ->
            {TsPlain(1), TsZ(1), TsFrac(1), TsFracZ(1), CS(<<>>), S("soon")}
      [] s.op = "tier" ->
            {I(1000), I(2000), I(3000), CS(<<"2", "0", "0", "0">>),
             CS(<<"3", "0", "0", "0">>), I(500), I(1500), I(2500), S("gold")}
      [] s.op = "int" -> {CS(<<"0", "7">>), S("abc")}
      [] s.op = "float" -> {I(1), S("abc")}
      [] s.op = "get" -> {I(0), CS(<<>>)}
      [] OTHER -> {}

\* box-art templates: the tokens in either order, a further token in braces,
\* doubled braces, a closing brace on its own, and no token at all
Templates ==
    { CS(<<"https://art/", "{", "height", "}", "/", "{", "width", "}", ".jpg">>),
      CS(<<"https://art/", "{", "width", "}", "x", "{", "height", "}", "/", "{", "id", "}">>),
      CS(<<"https://art/", "{", "width", "}", "x", "{", "height", "}", "?q=", "{", "{",
           "a", "}", "}">>),
      CS(<<"https://art/", "{", "width", "}", "x", "{", "height", "}", "}">>),
      S("https://art/plain.jpg") }

\* payloads carrying keys the constructor does not read, and further values
\* of the keys it copies
ExtraVariations(cls) ==
    CASE cls = "Extension" ->
            {<<SetTo(<<"x">>, I(0))>>, <<SetTo(<<"y">>, I(3))>>,
             <<SetTo(<<"x">>, I(2)), SetTo(<<"y">>, I(0))>>}
      [] cls = "Game" -> {<<SetTo(<<"box_art_url">>, u)>> : u \in Templates}
      [] cls = "ScheduleSegment" -> {<<SetTo(<<"category">>, D(NoAttrs))>>}
      [] OTHER -> {}

\* the variations of a class's sample payload, each a sequence of changes:
\* the sample itself, one key missing, an optional value null, every optional
\* key missing or null, other scalars, lists of 0..MaxList elements, and a
\* varied nested payload
RECURSIVE Variations(_)
Variations(cls) ==
    LET st == Stmts(cls) IN
    {<<>>}
    \cup ExtraVariations(cls)
    \cup {<<Drop(p)>> : p \in ReadPaths(cls)}
    \cup {<<SetTo(p, Null)>> : p \in OptionalPaths(cls)}
    \cup {EditAll(OptionalPaths(cls), Exc("drop", "")), EditAll(OptionalPaths(cls), Null)}
    \cup UNION {{<<SetTo(s.p, v)>> : v \in Alternatives(s)} : s \in st}
    \cup UNION {{<<SetTo(s.p, L([j \in 1..n |-> Sample(ElemClass(s), j)]))>> : n \in 0..MaxList}
                : s \in {u \in st : u.op \in ListOps}}
    \cup UNION {{<<SetTo(s.p, L(<<Sample(ElemClass(s), 1),
                                  ApplyAll(Sample(ElemClass(s), 2), ev)>>))>>
                  : ev \in Variations(ElemClass(s))}
                : s \in {u \in st : u.op \in ListOps /\ u.op # "each_user"}}
    \cup UNION {{<<SetTo(s.p, ApplyAll(Sample(s.k, 1), ev))>> : ev \in Variations(s.k)}
                : s \in {u \in st : u.op \in NestOps}}

\* a user the caller has already resolved
ResolvedUser(i) ==
    Obj("User", [id |-> I(i), name |-> Txt("user", i), _http |-> S("http"),
                 display_name |-> Txt("User", i)])

ArgUsers == {Null, ResolvedUser(9), PartialUser(I(41), Txt("user", 1))}

\* the update records placed in a builder
ExtRecords ==
    { New("Extension.new",
          Env("py311", PayloadHeap, D(NoAttrs),
              [active |-> B(TRUE), version |-> S("1.0"), id |-> S("ext1"),
               x |-> Null, y |-> Null])),
      New("Extension.new",
          Env("py311", PayloadHeap, D(NoAttrs),
              [active |-> B(FALSE), version |-> S("2.0"), id |-> S("ext2"),
               x |-> I(0), y |-> I(3)])),
      New("ActiveExtension", Env("py311", PayloadHeap, Sample("ActiveExtension", 3), NoArgs)),
      New("MaybeActiveExtension",
          Env("py311", PayloadHeap, Sample("MaybeActiveExtension", 4), NoArgs)) }

\* the arguments a constructor is called with besides http and data
ArgChoices(cls) ==
    CASE cls \in {"BanEvent", "ModEvent"} -> {[broadcaster |-> u] : u \in ArgUsers}
      [] cls = "FollowEvent" -> {[from_ |-> u, to |-> w] : u \in ArgUsers, w \in ArgUsers}
      [] cls = "SubscriptionEvent" ->
            {[broadcaster |-> u, user |-> w] : u \in ArgUsers, w \in ArgUsers}
      [] cls = "Video" -> {[user |-> u] : u \in ArgUsers}
      [] cls = "AutomodCheckMessage" ->
            {[id |-> S("m1"), text |-> S("hello"), user |-> u]
               : u \in {I(41), PartialUser(I(41), Txt("user", 1)), ResolvedUser(9)}}
      [] cls = "Extension.new" ->
            {[active |-> B(a), version |-> S("1.0"), id |-> S("ext1"), x |-> x, y |-> y]
               : a \in BOOLEAN, x \in {Null, I(0), I(2)}, y \in {Null, I(0), I(3)}}
      [] cls = "ExtensionBuilder" ->
            {[panels |-> a, overlays |-> b, components |-> c]
               : a \in {Null}, b \in {L(<<>>)},
                 c \in {Null, L(<<CHOOSE e \in ExtRecords : e.cls = "Extension">>)}}
      [] OTHER -> {NoArgs}

\* the constructors and class methods a caller can invoke
EntryPoints ==
    {"BitsLeaderboard", "CheerEmoteTier", "CheerEmote", "Clip", "HypeTrainContribution",
     "HypeTrainEvent", "BanEvent", "FollowEvent", "SubscriptionEvent", "Marker",
     "VideoMarkers", "Game", "ModEvent", "AutomodCheckMessage", "AutomodCheckResponse",
     "Extension", "Extension.new", "MaybeActiveExtension", "ActiveExtension",
     "ExtensionBuilder", "Video", "Tag", "WebhookSubscription", "Stream", "ChannelInfo",
     "Prediction", "Predictor", "PredictionOutcome", "Schedule", "ScheduleSegment",
     "ScheduleCategory", "ScheduleVacation", "Team", "ChannelTeams"}

VariationsOf == [cls \in EntryPoints |-> Variations(cls)]

----------------------------------------------------------------------------
(* The state machine: one record at a time is constructed from a payload,  *)
(* used through its methods while the payload may change under it, and     *)
(* discarded.                                                              *)

NoResult == [cls |-> "none", data |-> Null, args |-> NoArgs, ret |-> Null]

NoCall == [m |-> "none", args |-> <<>>]
Call(m, args) == [m |-> m, args |-> args]

Init ==
    /\ pyver \in {"py310", "py311"}
    /\ heap = PayloadHeap
    /\ result = NoResult
    /\ out = Null
    /\ call = NoCall
    /\ requests = [n |-> 0, last |-> Null]

Held == result.ret.t = "obj"

\* a construction that asks the HTTP collaborator for the name of the
\* placeholder it builds
Construct_resolving(cls, ev, args) ==
    /\ result = NoResult
    /\ LET data == ApplyAll(Sample(cls, 1), ev) IN
       result' = [cls |-> cls, data |-> data, args |-> args,
                  ret |-> New(cls, Env(pyver, PayloadHeap, data, args))]
    /\ heap' = PayloadHeap
    /\ out' = Null
    /\ call' = NoCall
    /\ requests' = IF cls \in {"HypeTrainContribution", "HypeTrainEvent"}
                       /\ requests.n < MaxRequests
                    THEN [n |-> requests.n + 1, last |-> [t |-> "fetch_users"]]
                    ELSE requests
    /\ UNCHANGED pyver

\* cls(http, data, **args) on a fresh payload
Construct(cls, ev, args) ==
    /\ result = NoResult
    /\ LET data == ApplyAll(Sample(cls, 1), ev) IN
       result' = [cls |-> cls, data |-> data, args |-> args,
                  ret |-> New(cls, Env(pyver, PayloadHeap, data, args))]
    /\ heap' = PayloadHeap
    /\ out' = Null
    /\ call' = NoCall
    /\ UNCHANGED <<pyver, requests>>

\* the caller drops the record (or the exception) it got
Discard ==
    /\ result # NoResult
    /\ result' = NoResult
    /\ heap' = PayloadHeap
    /\ out' = Null
    /\ call' = NoCall
    /\ UNCHANGED <<pyver, requests>>

\* the references to heap containers found in a payload value
RECURSIVE RefsIn(_)
RefsIn(v) ==
    CASE v.t = "ref" -> {v.r}
      [] v.t = "dict" -> UNION {RefsIn(v.d[n]) : n \in DOMAIN v.d}
      [] v.t = "list" -> UNION {RefsIn(v.l[j]) : j \in 1..Len(v.l)}
      [] OTHER -> {}

\* the owner of the payload changes one of its containers in place
MutatePayload(n) ==
    /\ result # NoResult
    /\ n \in RefsIn(result.data)
    /\ heap[n] = PayloadHeap[n]
    /\ heap' = [heap EXCEPT ![n] =
                  IF @.t = "dict"
                  THEN D([k \in DOMAIN @.d \cup {"fr"} |-> S("changed")])
                  ELSE L(Append(@.l, S("changed")))]
    /\ UNCHANGED <<pyver, result, out, call, requests>>

HasToDict(o) ==
    o.cls \in {"Extension", "MaybeActiveExtension", "ActiveExtension",
               "AutomodCheckMessage", "ExtensionBuilder"}

\* record._to_dict() of a serialiser that hands over the panels it has
\* flattened and forgets them
ToDict_draining ==
    /\ Held /\ HasToDict(result.ret)
    /\ out' = CASE result.ret.cls = "ExtensionBuilder" -> ExtensionBuilder_to_dict(result.ret)
                [] result.ret.cls = "AutomodCheckMessage" -> AutomodCheckMessage_to_dict(result.ret)
                [] OTHER -> Extension_to_dict(result.ret)
    /\ call' = Call("_to_dict", <<>>)
    /\ result' = IF result.ret.cls = "ExtensionBuilder"
                 THEN [result EXCEPT !.ret.attrs["panels"] = L(<<>>)]
                 ELSE result
    /\ UNCHANGED <<pyver, heap, requests>>

\* record._to_dict()
ToDict ==
    /\ Held /\ HasToDict(result.ret)
    /\ out' = CASE result.ret.cls = "ExtensionBuilder" -> ExtensionBuilder_to_dict(result.ret)
                [] result.ret.cls = "AutomodCheckMessage" -> AutomodCheckMessage_to_dict(result.ret)
                [] OTHER -> Extension_to_dict(result.ret)
    /\ call' = Call("_to_dict", <<>>)
    /\ UNCHANGED <<pyver, heap, result, requests>>

\* game.art_url(width, height)
ArtUrl(width, height) ==
    /\ Held /\ result.ret.cls = "Game"
    /\ out' = Game_art_url(result.ret, width, height)
    /\ call' = Call("art_url", <<width, height>>)
    /\ UNCHANGED <<pyver, heap, result, requests>>

BuilderSize(o) ==
    Len(o.attrs["panels"].l) + Len(o.attrs["overlays"].l) + Len(o.attrs["components"].l)

\* builder.<which>.append(e)
Add(which, e) ==
    /\ Held /\ result.ret.cls = "ExtensionBuilder"
    /\ BuilderSize(result.ret) < MaxAdds
    /\ result' = [result EXCEPT !.ret.attrs[which] = L(Append(@.l, e))]
    /\ out' = Null
    /\ call' = NoCall
    /\ UNCHANGED <<pyver, heap, requests>>

\* the tokens a caller holds
Tokens == {S("tok1"), S("tok2")}

\* await video.delete(token)
Delete(token) ==
    /\ Held /\ result.ret.cls = "Video"
    /\ requests.n < MaxRequests
    /\ requests' = [n |-> requests.n + 1, last |-> Video_delete(result.ret, token)]
    /\ UNCHANGED <<pyver, heap, result, out, call>>

Next ==
    \/ \E cls \in EntryPoints : \E ev \in VariationsOf[cls] : \E args \in ArgChoices(cls) :
          Construct(cls, ev, args)
    \/ Discard
    \/ \E n \in 1..Len(PayloadHeap) : MutatePayload(n)
    \/ ToDict
    \/ \E width \in {I(100), I(7)} : \E height \in {I(200)} : ArtUrl(width, height)
    \/ \E which \in {"panels", "overlays", "components"} : \E e \in ExtRecords : Add(which, e)
    \/ \E token \in Tokens : Delete(token)

Spec == Init /\ [][Next]_vars

----------------------------------------------------------------------------
(* Properties *)

Raised == IsExc(result.ret)

\* the references a constructor takes from the caller or builds from the
\* payload: class, attribute, parameter, path of the inline id and of the name
UserParams ==
    { <<"BanEvent", "broadcaster", "broadcaster",
        <<"event_data", "broadcaster_id">>, <<"event_data", "broadcaster_name">> >>,
      <<"FollowEvent", "from_user", "from_", <<"from_id">>, <<"from_name">> >>,
      <<"FollowEvent", "to_user", "to", <<"to_id">>, <<"to_name">> >>,
      <<"SubscriptionEvent", "broadcaster", "broadcaster",
        <<"broadcaster_id">>, <<"broadcaster_name">> >>,
      <<"SubscriptionEvent", "user", "user", <<"user_id">>, <<"user_name">> >>,
      <<"Video", "user", "user", <<"user_id">>, <<"user_name">> >> }

\* the reference is a placeholder made of the id and name found at the paths
IsPlaceholderOf(ref, data, idpath, namepath) ==
    /\ ref.t = "obj" /\ ref.cls = "PartialUser"
    /\ ref.attrs["id"] = Item(PayloadHeap, data, idpath)
    /\ ref.attrs["name"] = Item(PayloadHeap, data, namepath)

SuppliedOrPlaceholder(u) ==
    (Held /\ result.cls = u[1]) =>
        IF result.args[u[3]] # Null
        THEN result.ret.attrs[u[2]] = result.args[u[3]]
        ELSE IsPlaceholderOf(result.ret.attrs[u[2]], result.data, u[4], u[5])

\* C1 as stated: in BanEvent, FollowEvent, SubscriptionEvent, Video and
\* ModEvent alike, a supplied user is the record's reference and, when none
\* is supplied, the reference is a placeholder built from the inline id and
\* name of the payload.
C1_SuppliedOrPlaceholderEverywhere ==
    /\ \A u \in UserParams : SuppliedOrPlaceholder(u)
    /\ SuppliedOrPlaceholder(<<"ModEvent", "broadcaster", "broadcaster",
                               <<"event_data", "broadcaster_id">>,
                               <<"event_data", "broadcaster_name">> >>)

\* C1, amended: in BanEvent, FollowEvent, SubscriptionEvent and Video a
\* supplied user is the record's reference and, when none is supplied, the
\* reference is a placeholder built from the inline id and name; in ModEvent
\* the reference is whatever the caller passed, also when that is nothing.
C1_SuppliedOrPlaceholder ==
    /\ \A u \in UserParams : SuppliedOrPlaceholder(u)
    /\ (Held /\ result.cls = "ModEvent") =>
           result.ret.attrs["broadcaster"] = result.args["broadcaster"]

C1_Witness ==
    /\ Held /\ result.cls = "FollowEvent"
    /\ result.args["from_"] = ResolvedUser(9) /\ result.args["to"] = Null
    /\ result.ret.attrs["from_user"] = ResolvedUser(9)
    /\ result.ret.attrs["to_user"].cls = "PartialUser"

\* the fields the schema lets a payload leave out or null: class, attribute, path
OptionalFields ==
    { <<"BanEvent", "expires_at", <<"event_data", "expires_at">> >>,
      <<"Marker", "url", <<"URL">> >>,
      <<"ScheduleSegment", "canceled_until", <<"canceled_until">> >>,
      <<"ScheduleSegment", "category", <<"category">> >>,
      <<"Schedule", "vacation", <<"data", "vacation">> >>,
      <<"PredictionOutcome", "top_predictors", <<"top_predictors">> >>,
      <<"Prediction", "created_at", <<"created_at">> >>,
      <<"Prediction", "ended_at", <<"ended_at">> >>,
      <<"Prediction", "locked_at", <<"locked_at">> >>,
      <<"ActiveExtension", "id", <<"id">> >>,
      <<"ActiveExtension", "version", <<"version">> >>,
      <<"ActiveExtension", "name", <<"name">> >>,
      <<"ActiveExtension", "x", <<"x">> >>,
      <<"ActiveExtension", "y", <<"y">> >> }

OptionalOf(cls) == {f \in OptionalFields : f[1] = cls}

\* the inline id and name paths of the references the caller has supplied
SuppliedPaths(cls, args) ==
    UNION {{u[4], u[5]} : u \in {w \in UserParams : w[1] = cls /\ args[w[3]] # Null}}

\* the fields a construction cannot do without
RequiredPaths(cls, args) ==
    (ReadPaths(cls) \ {f[3] : f \in OptionalOf(cls)}) \ SuppliedPaths(cls, args)

\* C2: a payload that lacks one required field makes the constructor raise
\* KeyError naming that field, for every record type.
C2_MissingFieldRaisesKeyError ==
    result.cls # "none" =>
        \A p \in RequiredPaths(result.cls, result.args) :
            result.data = DropAt(Sample(result.cls, 1), p)
                => result.ret = Exc("KeyError", p[Len(p)])

\* the payload of a class with every optional field left out
RequiredOnly(cls) ==
    ApplyAll(Sample(cls, 1), EditAll({f[3] : f \in OptionalOf(cls)}, Exc("drop", "")))

\* C3: a payload with exactly the required fields, every optional one left
\* out, constructs a record whose optional attributes are all None.
C3_RequiredOnlySucceeds ==
    (result.cls # "none" /\ result.data = RequiredOnly(result.cls))
        => /\ Held
           /\ \A f \in OptionalOf(result.cls) : result.ret.attrs[f[2]] = Null

\* C4: a record that a constructor (or Extension.new) returned has every
\* slot of its class set.
C4_EverySlotSet ==
    Held => DOMAIN result.ret.attrs = SlotsOf(result.ret.cls)

\* C5: an Extension built from a payload serialises back to the payload's
\* id, version, active and each coordinate the payload carried.
C5_ExtensionRoundTrip ==
    (Held /\ result.cls = "Extension" /\ out # Null)
        => /\ out.t = "odict"
           /\ \A key \in {"id", "version", "active"} : out.m[key] = result.data.d[key]
           /\ \A key \in {"x", "y"} \cap DOMAIN result.data.d :
                 key \in DOMAIN out.m /\ out.m[key] = result.data.d[key]

\* the keys "0" .. "n-1" in order
IndexKeys(n) == [i \in 1..n |-> Digits[i]]

\* m is the map of the sequence q: keys "0" .. "n-1" in insertion order, key
\* "i" holding the serialisation of the i-th record
IsFlatOf(m, q) ==
    /\ m.t = "odict"
    /\ m.keys = IndexKeys(Len(q))
    /\ DOMAIN m.m = {Digits[i] : i \in 1..Len(q)}
    /\ \A i \in 1..Len(q) : m.m[Digits[i]] = Extension_to_dict(q[i])

\* every record placed in the builder is an update record
HoldsUpdates(o) ==
    \A which \in {"panels", "overlays", "components"} :
        \A i \in 1..Len(o.attrs[which].l) : o.attrs[which].l[i].cls = "Extension"

\* C6: whatever update records were added to a builder, _to_dict returns the
\* maps "panel", "overlay" and "component" in that order, the map of a
\* sequence of n records having the keys "0" .. "n-1" in insertion order with
\* the serialisation of the i-th record under key "i", and being empty for
\* an empty sequence.
C6_BuilderFlattening ==
    (Held /\ result.ret.cls = "ExtensionBuilder" /\ out # Null /\ HoldsUpdates(result.ret))
        => /\ out.t = "odict"
           /\ out.keys = <<"panel", "overlay", "component">>
           /\ IsFlatOf(out.m["panel"], result.ret.attrs["panels"].l)
           /\ IsFlatOf(out.m["overlay"], result.ret.attrs["overlays"].l)
           /\ IsFlatOf(out.m["component"], result.ret.attrs["components"].l)

C6_Witness ==
    /\ Held /\ result.ret.cls = "ExtensionBuilder" /\ HoldsUpdates(result.ret)
    /\ Len(result.ret.attrs["panels"].l) = 2
    /\ result.ret.attrs["panels"].l[1] # result.ret.attrs["panels"].l[2]
    /\ Len(result.ret.attrs["overlays"].l) = 1
    /\ Len(result.ret.attrs["components"].l) = 0
    /\ out # Null /\ out.t = "odict"
    /\ out.m["panel"].keys = <<"0", "1">>
    /\ out.m["overlay"].keys = <<"0">>
    /\ out.m["component"].keys = <<>>

\* the tiers the platform transmits, as an integer and as a numeric string,
\* with the ordinal each stands for
TierTable ==
    { <<I(1000), 1>>, <<CS(<<"1", "0", "0", "0">>), 1>>,
      <<I(2000), 2>>, <<CS(<<"2", "0", "0", "0">>), 2>>,
      <<I(3000), 3>>, <<CS(<<"3", "0", "0", "0">>), 3>> }

\* C7: SubscriptionEvent decodes a payload tier of 1000, 2000, 3000, integer
\* or numeric string, to 1, 2, 3; for an integer payload tier the decoded
\* tier is the nearest multiple of 1000.
C7_TierDecoding ==
    result.cls = "SubscriptionEvent" =>
        /\ \A e \in TierTable :
              result.data = SetAt(Sample("SubscriptionEvent", 1), <<"tier">>, e[1])
                  => Held /\ result.ret.attrs["tier"] = I(e[2])
        /\ (Held /\ result.data.d["tier"].t = "int") =>
              /\ result.ret.attrs["tier"].t = "int"
              /\ 1000 * result.ret.attrs["tier"].n - 500 <= result.data.d["tier"].n
              /\ result.data.d["tier"].n <= 1000 * result.ret.attrs["tier"].n + 500

C7_Witness ==
    /\ Held /\ result.cls = "SubscriptionEvent"
    /\ result.data.d["tier"] = CS(<<"2", "0", "0", "0">>)
    /\ result.ret.attrs["tier"] = I(2)

\* the value of a record with the containers it refers to read from heap h
RECURSIVE Resolve(_, _)
Resolve(h, v) ==
    CASE v.t = "ref" -> h[v.r]
      [] v.t = "obj" -> Obj(v.cls, [a \in DOMAIN v.attrs |-> Resolve(h, v.attrs[a])])
      [] v.t = "list" -> L([i \in 1..Len(v.l) |-> Resolve(h, v.l[i])])
      [] OTHER -> v

\* C8: a record other than the builder keeps, whatever happens after its
\* construction (method calls, changes to the payload it was built from),
\* the attribute values it had when it was constructed.
C8_Immutable ==
    (Held /\ result.ret.cls # "ExtensionBuilder")
        => Resolve(heap, result.ret) = Resolve(PayloadHeap, result.ret)

\* the timestamps the schema lets be null: class, attribute, path
NullableTimestamps ==
    { <<"BanEvent", "expires_at", <<"event_data", "expires_at">> >>,
      <<"ScheduleSegment", "canceled_until", <<"canceled_until">> >>,
      <<"Prediction", "created_at", <<"created_at">> >>,
      <<"Prediction", "ended_at", <<"ended_at">> >>,
      <<"Prediction", "locked_at", <<"locked_at">> >> }

\* the well-formed timestamp strings
WellFormed == {TsPlain(1), TsZ(1), TsFrac(1), TsFracZ(1)}

\* C9: where the schema allows a null timestamp, a null yields None without
\* an error and a well-formed timestamp string yields a timestamp.
C9_NullableTimestamps ==
    \A f \in NullableTimestamps :
        result.cls = f[1] =>
            /\ result.data = SetAt(Sample(f[1], 1), f[3], Null)
                  => Held /\ result.ret.attrs[f[2]] = Null
            /\ \A ts \in WellFormed :
                  result.data = SetAt(Sample(f[1], 1), f[3], ts)
                      => Held /\ result.ret.attrs[f[2]].t = "datetime"

\* C10: in a Prediction, a timestamp without fractional seconds and one with
\* them, for the same date and time of day, both parse, to the same instant
\* truncated to the second and with the same zone information.
C10_SameInstant ==
    result.cls = "Prediction" =>
        \A f, g \in {"created_at", "ended_at", "locked_at"} : \A d \in Dates :
            ( /\ result.data = SetAt(Sample("Prediction", 1), <<f>>, CS(<<d, "Z">>))
              /\ result.data.d[g] = CS(<<d, ".", "123456", "Z">>) )
                => /\ Held
                   /\ result.ret.attrs[f].t = "datetime"
                   /\ result.ret.attrs[f].at = d /\ result.ret.attrs[f].us = "0"
                   /\ result.ret.attrs[g] = result.ret.attrs[f]

\* the pieces of q as one string
RECURSIVE Join(_)
Join(q) == IF Len(q) = 0 THEN "" ELSE Head(q) \o Join(Tail(q))

\* the template q from piece i on, with each token {width} and {height}
\* replaced by the number and every other piece kept
RECURSIVE Expanded(_, _, _, _)
Expanded(q, i, width, height) ==
    IF i > Len(q) THEN <<>>
    ELSE IF i + 2 <= Len(q) /\ q[i] = "{" /\ q[i + 1] \in {"width", "height"} /\ q[i + 2] = "}"
    THEN <<PyStr(IF q[i + 1] = "width" THEN width ELSE height)>>
             \o Expanded(q, i + 3, width, height)
    ELSE <<q[i]>> \o Expanded(q, i + 1, width, height)

HasToken(q, name) ==
    \E i \in 1..(Len(q) - 2) : q[i] = "{" /\ q[i + 1] = name /\ q[i + 2] = "}"

\* C11: for a box-art template holding the tokens {width} and {height},
\* art_url returns, without raising, the template with exactly those tokens
\* replaced by the numbers given and every other character kept, other
\* braces included.
C11_TemplateExpansion ==
    (Held /\ result.cls = "Game" /\ call.m = "art_url")
        => LET url == result.data.d["box_art_url"] IN
           (url.t = "cstr" /\ HasToken(url.q, "width") /\ HasToken(url.q, "height"))
               => /\ out.t = "cstr"
                  /\ Join(out.q) = Join(Expanded(url.q, 1, call.args[1].n, call.args[2].n))

\* a category of the schedule schema: null, or a mapping with id and name
IsCategory(c) ==
    c = Null \/ (c.t = "dict" /\ DOMAIN c.d = {"id", "name"})

\* a segment of the schedule schema: the j-th sample segment, whatever its category
IsSegment(seg, j) ==
    /\ seg.t = "dict" /\ "category" \in DOMAIN seg.d
    /\ SetAt(seg, <<"category">>, Null)
          = SetAt(Sample("ScheduleSegment", j), <<"category">>, Null)
    /\ IsCategory(seg.d["category"])

\* a schedule payload of the schema: any number of segments, vacation null or not
IsSchedule(data) ==
    /\ data.t = "dict" /\ "data" \in DOMAIN data.d
    /\ data.d["data"].t = "dict"
    /\ {"segments", "vacation"} \subseteq DOMAIN data.d["data"].d
    /\ SetAt(SetAt(data, <<"data", "segments">>, Null), <<"data", "vacation">>, Null)
          = SetAt(SetAt(Sample("Schedule", 1), <<"data", "segments">>, Null),
                  <<"data", "vacation">>, Null)
    /\ data.d["data"].d["vacation"] \in {Null, Sample("ScheduleVacation", 1)}
    /\ data.d["data"].d["segments"].t = "list"
    /\ \A i \in 1..Len(data.d["data"].d["segments"].l) :
          \E j \in 1..(MaxList + 1) : IsSegment(data.d["data"].d["segments"].l[i], j)

IsOutcome(d) ==
    /\ d.t = "dict" /\ "top_predictors" \in DOMAIN d.d
    /\ \E j \in 1..(MaxList + 1) :
          SetAt(d, <<"top_predictors">>, Null) = Sample("PredictionOutcome", j)
    /\ LET tp == d.d["top_predictors"] IN
       \/ tp = Null
       \/ /\ tp.t = "list"
          /\ \A i \in 1..Len(tp.l) : \E j \in 1..(MaxList + 1) : tp.l[i] = Sample("Predictor", j)

\* the record rec is the outcome the payload d describes
IsOutcomeOf(rec, d) ==
    LET tp == d.d["top_predictors"] IN
    /\ rec.t = "obj" /\ rec.cls = "PredictionOutcome"
    /\ rec.attrs["outcome_id"] = d.d["id"]
    /\ IF tp = Null \/ tp = L(<<>>)
       THEN rec.attrs["top_predictors"] = Null
       ELSE /\ rec.attrs["top_predictors"].t = "list"
            /\ Len(rec.attrs["top_predictors"].l) = Len(tp.l)
            /\ \A i \in 1..Len(tp.l) :
                  LET who == rec.attrs["top_predictors"].l[i] IN
                  /\ who.cls = "Predictor"
                  /\ who.attrs["channel_points_used"] = tp.l[i].d["channel_points_used"]
                  /\ who.attrs["channel_points_won"] = tp.l[i].d["channel_points_won"]
                  /\ who.attrs["user"].attrs["id"] = tp.l[i].d["user"].d["id"]
                  /\ who.attrs["user"].attrs["name"] = tp.l[i].d["user"].d["name"]

\* a prediction payload of the schema: the sample with any list of outcomes
IsPrediction(d) ==
    /\ d.t = "dict" /\ "outcomes" \in DOMAIN d.d
    /\ SetAt(d, <<"outcomes">>, Null) = SetAt(Sample("Prediction", 1), <<"outcomes">>, Null)
    /\ d.d["outcomes"].t = "list"
    /\ \A i \in 1..Len(d.d["outcomes"].l) : IsOutcome(d.d["outcomes"].l[i])

\* C13: a Prediction holds one PredictionOutcome per payload outcome, in
\* order; an outcome with a non-empty top_predictors list holds one Predictor
\* per entry, in order, with the entry's user id and name and its
\* channel_points_used and channel_points_won; an outcome whose
\* top_predictors is null or empty holds None.
C13_PredictionOutcomes ==
    /\ (result.cls = "PredictionOutcome" /\ IsOutcome(result.data))
          => Held /\ IsOutcomeOf(result.ret, result.data)
    /\ (result.cls = "Prediction" /\ IsPrediction(result.data))
          => /\ Held
             /\ result.ret.attrs["outcomes"].t = "list"
             /\ Len(result.ret.attrs["outcomes"].l) = Len(result.data.d["outcomes"].l)
             /\ \A i \in 1..Len(result.data.d["outcomes"].l) :
                   IsOutcomeOf(result.ret.attrs["outcomes"].l[i], result.data.d["outcomes"].l[i])

\* the list-valued attributes: class, attribute, path of the payload
\* sequence, class of the elements
ListAttributes ==
    { <<"BitsLeaderboard", "leaders", <<"data">>, "BitLeaderboardUser">>,
      <<"CheerEmote", "tiers", <<"tiers">>, "CheerEmoteTier">>,
      <<"HypeTrainEvent", "top_contributions", <<"event_data", "top_contributions">>,
        "HypeTrainContribution">>,
      <<"VideoMarkers", "markers", <<"markers">>, "Marker">>,
      <<"Prediction", "outcomes", <<"outcomes">>, "PredictionOutcome">>,
      <<"Schedule", "segments", <<"data", "segments">>, "ScheduleSegment">>,
      <<"Team", "users", <<"users">>, "PartialUser">> }

\* the record built from the payload element x alone
BuiltFrom(cls, x) ==
    IF cls = "PartialUser"
    THEN PartialUser(x.d["user_id"], x.d["user_login"])
    ELSE New(cls, Env(pyver, PayloadHeap, x, NoArgs))

\* C14: a list-valued attribute has the length of the payload sequence and
\* its i-th element is the record built from the i-th payload element.
C14_ListOrder ==
    \A a \in ListAttributes :
        (Held /\ result.cls = a[1])
            => LET src == Item(PayloadHeap, result.data, a[3])
                   got == result.ret.attrs[a[2]]
               IN /\ src.t = "list" /\ got.t = "list"
                  /\ Len(got.l) = Len(src.l)
                  /\ \A i \in 1..Len(src.l) : got.l[i] = BuiltFrom(a[4], src.l[i])

C14_Witness ==
    /\ Held /\ result.cls = "CheerEmote"
    /\ Len(result.ret.attrs["tiers"].l) = 2
    /\ result.ret.attrs["tiers"].l[1].attrs["id"] = result.data.d["tiers"].l[1].d["id"]
    /\ result.ret.attrs["tiers"].l[2].attrs["id"] = result.data.d["tiers"].l[2].d["id"]
    /\ result.data.d["tiers"].l[1].d["id"] # result.data.d["tiers"].l[2].d["id"]

\* C15: no construction issues a request to the HTTP collaborator, whatever
\* placeholder references it builds; the count of requests changes only
\* when delete is called on a Video, and then by one delete request.
C15_ConstructionIssuesNoRequest ==
    [][ requests' # requests =>
            /\ Held /\ result.ret.cls = "Video" /\ result' = result
            /\ requests'.n = requests.n + 1
            /\ requests'.last.t = "delete_videos" ]_vars

C15_Witness ==
    /\ Held /\ result.cls = "BanEvent" /\ result.args["broadcaster"] = Null
    /\ result.ret.attrs["broadcaster"].cls = "PartialUser"
    /\ requests.n = 1 /\ requests.last.t = "delete_videos"

\* the text of a str value
TextOf(v) == IF v.t = "cstr" THEN Join(v.q) ELSE v.s

\* C16: delete(token) on a Video hands the HTTP collaborator exactly one
\* delete request, with the token given and a list of one id, the id string
\* the payload of the video carried, and leaves the record as it was.
C16_DeleteRequest ==
    [][ \A token \in Tokens :
          (Delete(token) /\ result.data.d["id"].t \in {"cstr", "str"})
              => /\ requests'.n = requests.n + 1
                 /\ requests'.last.t = "delete_videos"
                 /\ requests'.last.token = token
                 /\ Len(requests'.last.ids) = 1
                 /\ TextOf(requests'.last.ids[1]) = TextOf(result.data.d["id"])
                 /\ result'.ret = result.ret ]_vars

\* the fields a constructor converts to a number: class, path
CoercedFields ==
    { <<"Game", <<"id">> >>, <<"Video", <<"id">> >>,
      <<"SubscriptionEvent", <<"tier">> >>, <<"BanEvent", <<"version">> >> }

\* a string that is not the decimal writing of a number
NonNumeric(v) ==
    \/ v.t = "str"
    \/ v.t = "cstr" /\ \E i \in 1..Len(v.q) : ~IsDigit(v.q[i]) /\ v.q[i] # "."

\* C17: Game or Video built from a non-numeric id, SubscriptionEvent from a
\* non-numeric tier, BanEvent from a non-numeric version: the constructor
\* raises a conversion error and returns no record.
C17_CoercionFailurePropagates ==
    \A f \in CoercedFields :
        result.cls = f[1] =>
            LET v == Item(PayloadHeap, result.data, f[2]) IN
            (~IsExc(v) /\ NonNumeric(v))
                => Raised /\ result.ret.type = "ValueError"

C17_Witness ==
    /\ result.cls = "BanEvent"
    /\ Item(PayloadHeap, result.data, <<"version">>) = S("abc")
    /\ result.ret = Exc("ValueError", "float")

\* the id of the sender a message was built for: the id of the user
\* reference, or the raw id
SenderId(user) == IF user.t = "obj" THEN user.attrs["id"] ELSE user

\* C18: _to_dict of an AutomodCheckMessage returns exactly msg_id, msg_text
\* and user_id: the id and text given and the sender's user id as a string;
\* a message built from a user reference serialises as the one built from
\* that user's raw id.
C18_AutomodBody ==
    (Held /\ result.cls = "AutomodCheckMessage" /\ call.m = "_to_dict")
        => /\ out.t = "odict"
           /\ DOMAIN out.m = {"msg_id", "msg_text", "user_id"}
           /\ out.m["msg_id"] = result.args["id"]
           /\ out.m["msg_text"] = result.args["text"]
           /\ out.m["user_id"].t = "str"
           /\ out.m["user_id"].s = PyStr(SenderId(result.args["user"]).n)
           /\ out = AutomodCheckMessage_to_dict(
                       New("AutomodCheckMessage",
                           Env(pyver, PayloadHeap, result.data,
                               [result.args EXCEPT !["user"] = SenderId(@)])))

C18_Witness ==
    /\ Held /\ result.cls = "AutomodCheckMessage" /\ call.m = "_to_dict"
    /\ result.args["user"] = ResolvedUser(9)
    /\ out.t = "odict" /\ out.m["user_id"] = S("9")

\* ref is a placeholder with the given id and no name
IsNamelessPlaceholder(ref, id) ==
    /\ ref.t = "obj" /\ ref.cls = "PartialUser"
    /\ ref.attrs["id"] = id
    /\ ref.attrs["name"] = Null

\* rec is a contribution whose user is the nameless placeholder of the payload d
IsContributionOf(rec, d) ==
    rec.cls = "HypeTrainContribution" /\ IsNamelessPlaceholder(rec.attrs["user"], d.d["user"])

\* C19: the user of a HypeTrainContribution and the broadcaster of a
\* HypeTrainEvent are placeholders with the id of the payload and no name,
\* and no request has been issued to resolve one.
C19_HypeTrainPlaceholders ==
    /\ (Held /\ result.cls = "HypeTrainContribution")
          => IsContributionOf(result.ret, result.data)
    /\ (Held /\ result.cls = "HypeTrainEvent")
          => LET ev == result.data.d["event_data"] IN
             /\ IsNamelessPlaceholder(result.ret.attrs["broadcaster"], ev.d["broadcaster_id"])
             /\ IsContributionOf(result.ret.attrs["last_contribution"], ev.d["last_contribution"])
             /\ \A i \in 1..Len(ev.d["top_contributions"].l) :
                   IsContributionOf(result.ret.attrs["top_contributions"].l[i],
                                    ev.d["top_contributions"].l[i])
    /\ (Held /\ result.cls \in {"HypeTrainContribution", "HypeTrainEvent"})
          => requests.last.t \in {"null", "delete_videos"}

C19_Witness ==
    /\ Held /\ result.cls = "HypeTrainEvent"
    /\ Len(result.ret.attrs["top_contributions"].l) = 2
    /\ result.ret.attrs["broadcaster"].attrs["name"] = Null
    /\ result.ret.attrs["top_contributions"].l[2].attrs["user"].attrs["name"] = Null

\* C20: _to_dict of a builder succeeds whichever of the three extension
\* variants (Extension, MaybeActiveExtension, ActiveExtension) its panels,
\* overlays and components hold: it raises nothing and returns the three maps.
C20_BuilderAcceptsEveryVariant ==
    (Held /\ result.ret.cls = "ExtensionBuilder" /\ call.m = "_to_dict")
        => /\ ~IsExc(out)
           /\ out.t = "odict"
           /\ out.keys = <<"panel", "overlay", "component">>

\* every entry of the payload earlier is in the payload later under the same key
EntriesKept(earlier, later) ==
    \A k \in {"panel", "overlay", "component"} :
        \A i \in DOMAIN earlier.m[k].m :
            /\ i \in DOMAIN later.m[k].m
            /\ later.m[k].m[i] = earlier.m[k].m[i]

\* C21: flattening a builder changes neither its three sequences nor a
\* record they hold; a second flattening with no addition in between returns
\* the payload of the first; and after an addition of update records the
\* builder flattens to a payload that has every entry of the earlier payload
\* under the same key.
C21_FlatteningReadOnly ==
    [][ /\ (ToDict /\ result.ret.cls = "ExtensionBuilder")
             => /\ result' = result
                /\ out' = ExtensionBuilder_to_dict(result'.ret)
                /\ call.m = "_to_dict" => out' = out
        /\ ((\E which \in {"panels", "overlays", "components"} : \E e \in ExtRecords :
                Add(which, e))
            /\ call.m = "_to_dict" /\ out.t = "odict" /\ HoldsUpdates(result'.ret))
             => LET later == ExtensionBuilder_to_dict(result'.ret) IN
                later.t = "odict" /\ EntriesKept(out, later)
      ]_vars

C21_Witness ==
    /\ Held /\ result.ret.cls = "ExtensionBuilder" /\ call.m = "_to_dict"
    /\ out.t = "odict"
    /\ out.m["panel"].keys = <<"0", "1">>
    /\ out.m["component"].keys = <<"0">>
    /\ out = ExtensionBuilder_to_dict(result.ret)

\* C22: the serialisation of an update record made by Extension.new has
\* active, id and version as given, has key x exactly when an x coordinate
\* was given and key y exactly when a y coordinate was given, each with the
\* value given (0 included), and has no other key.
C22_CoordinateSerialisation ==
    (Held /\ result.cls = "Extension.new" /\ call.m = "_to_dict")
        => /\ out.t = "odict"
           /\ {"active", "id", "version"} \subseteq DOMAIN out.m
           /\ DOMAIN out.m \subseteq {"active", "id", "version", "x", "y"}
           /\ \A key \in {"active", "id", "version"} : out.m[key] = result.args[key]
           /\ \A key \in {"x", "y"} :
                 /\ key \in DOMAIN out.m <=> result.args[key] # Null
                 /\ key \in DOMAIN out.m => out.m[key] = result.args[key]

C22_Witness ==
    /\ Held /\ result.cls = "Extension.new" /\ call.m = "_to_dict"
    /\ result.args["x"] = I(0) /\ result.args["y"] = Null
    /\ out.t = "odict"
    /\ DOMAIN out.m = {"active", "id", "version", "x"}
    /\ out.m["x"] = I(0)

\* the payload without the inline id and name of the reference u
WithoutInline(data, u) == DropAt(DropAt(data, u[4]), u[5])

\* the payload with another id and name inline for the reference u
WithOtherInline(data, u) == SetAt(SetAt(data, u[4], S("777")), u[5], S("someone"))

\* C23: when the caller supplies a user to BanEvent, FollowEvent,
\* SubscriptionEvent or Video, the outcome of the construction is the one the
\* same payload gives without the inline id and name of that user, and the
\* one it gives with any other id and name inline; the reference of the
\* record returned is the supplied user.
C23_SuppliedUserFieldsUnread ==
    \A u \in UserParams :
        (result.cls = u[1] /\ result.args[u[3]] # Null)
            => /\ Held => result.ret.attrs[u[2]] = result.args[u[3]]
               /\ result.ret = New(u[1], Env(pyver, PayloadHeap,
                                             WithoutInline(result.data, u), result.args))
               /\ result.ret = New(u[1], Env(pyver, PayloadHeap,
                                             WithOtherInline(result.data, u), result.args))

C23_Witness ==
    /\ Held /\ result.cls = "SubscriptionEvent"
    /\ result.args["broadcaster"] = ResolvedUser(9)
    /\ "broadcaster_id" \notin DOMAIN result.data.d
    /\ result.ret.attrs["broadcaster"] = ResolvedUser(9)
    /\ result.args["user"] = PartialUser(I(41), Txt("user", 1))
    /\ result.data.d["user_id"] # S("41") /\ result.data.d["user_id"] # I(41)
    /\ result.ret.attrs["user"] = PartialUser(I(41), Txt("user", 1))

====
